---- MODULE Spec2Model ----
(***************************************************************************)
(* py-IoticAgent, IoticAgent/Core/AmqpLink.py: the AMQP connection manager *)
(* (AmqpLink) with its two session threads (__send_run, __recv_run) and a  *)
(* caller thread that uses the public API start/stop/send/is_alive.        *)
(*                                                                         *)
(* Threads interleave at the granularity of the statements that touch      *)
(* shared state (Events, thread handles, captured exceptions).  Time is    *)
(* abstract: a wait with a finite timeout may time out whenever the Event  *)
(* has not been signalled to the waiter; a wait with timeout None cannot.  *)
(* raise_from is the Python >= 3.3 variant (the cause is chained).         *)
(***************************************************************************)
EXTENDS Naturals, FiniteSets, Sequences, TLC

\* Bound of the model: how many times the caller may enter start() past its guard.
MaxStarts == 2

\* Bound of the model: how many threads call send() concurrently.
NCallers == 2

\* Session threads that start() calls create in one behaviour.
MaxThreads == 3

\* Samples the container sends in reply to one recent-data request.
MaxSamples == 5

\* Bounds of the model: the largest prefetch count, the denominator of the
\* ack fractions (ackpc is AckNum / AckDen), and how many messages the broker
\* delivers on one connection.
MaxPrefetch == 4
AckDen == 2
MaxMsgs == 4

\* Bound of the model: how many keepalive messages the broker delivers.
MaxKa == 2

\* Bounds of the model: how many threads wait on requests, the longest
\* timeout they pass (in clock ticks), and how many times a request is
\* fulfilled when it is fulfilled again.
NWaiters == 2
MaxTimeout == 1
MaxFulfils == 2

\* Bound of the model: how many threads use the IOT client concurrently.
NClients == 2

\* Bound of the model: how many times ThingRunner.run() is called.
MaxRuns == 2

\* Bound of the model: the largest failure code a request is failed with.
MaxCode == 8

VARIABLES
    end,          \* self.__end          (Event: shutdown flag)
    send_ready,   \* self.__send_ready   (Event)
    recv_ready,   \* self.__recv_ready   (Event)
    send_thread,  \* self.__send_thread is not None
    recv_thread,  \* self.__recv_thread is not None
    send_exc,     \* self.__send_exc
    recv_exc,     \* self.__recv_exc
    sendPc,       \* position of the thread running __send_run
    sendPending,  \* exception propagating out of the sender's poll loop
    recvPc,       \* position of the thread running __recv_run
    recvPending,  \* exception propagating out of the receiver's drain loop
    callPc,       \* position of the caller thread
    callOp,       \* public method the caller is in
    timeout,      \* send(): the timeout argument, "finite" or "None"
    sig,          \* the caller's current Event.wait has been signalled
    success,      \* start(): the local variable success
    senderSeen,   \* the sender readiness wait of the current start() returned True
    result,       \* outcome of the caller's last completed call
    cycle,        \* number of start() calls that passed the guard
    lifecycle     \* last completed start()/stop(): new, started, failed, stopped,
                  \* restopped (a stop() of a manager that was not running)

VARIABLES
    send_lock,    \* self.__send_lock: the thread holding it, 0 when it is free
    send_channel, \* self.__send_channel: none, or the state of its connection
    pubPc,        \* position of each concurrent caller of send()
    prefetch,     \* self.__prefetch
    ackNum,       \* self.__ackpc is ackNum / AckDen
    unacked,      \* self.__unacked
    last_id,      \* self.__last_id (0 is None)
    tag,          \* last delivery tag the broker used on the data channel
    acks,         \* basic_ack calls on the data channel of this connection
    wake          \* why the inner drain loop was last left

VARIABLES
    msgCb,        \* how the last call of the message callback ended
    dropped,      \* a connect cycle began while messages were unacknowledged
    kaSeen,       \* keepalive messages dispatched to __recv_ka_cb
    kaCalled,     \* calls of the keepalive callback
    kaReply,      \* how the last keepalive reply ended: ok, failed, skipped
    kaCb          \* how the last call of the keepalive callback ended

VARIABLES
    evSet,        \* per request: RequestEvent.__event is set
    reqSuccess,   \* per request: RequestEvent.success ("None", "True", "False")
    reqExc,       \* per request: RequestEvent.exception ("none" or the object)
    fulfils,      \* per request: how many times it has been fulfilled
    waiter        \* per waiting thread: its call of wait()/is_set() and outcome

VARIABLES
    new_things,   \* IOT Client.__new_things[lid]: 0, or the thread whose request made the Thing
    crReq,        \* per client thread: state of its entity create request
    thPc,         \* per client thread: position in create_thing()
    thOp,         \* per client thread: the method it called last
    thOut,        \* per client thread: how that call ended
    private_things, \* IOT Client.__private_things[lid]: 0, or as new_things
    gets,         \* get_thing calls that returned a Thing since the last creation event
    gotThing      \* the Thing the last such call returned

VARIABLES
    shutdown,     \* ThingRunner.__shutdown (Event)
    bgthread,     \* ThingRunner.__bgthread is not None
    runPc,        \* per run cycle: position of the thread running ThingRunner.__run
    runMode,      \* per run cycle: how it was started: none, fg, bg
    runExc,       \* per run cycle: what ended it early or what main() raised
    onShut,       \* per run cycle: the arguments of the calls of on_shutdown
    askedStop,    \* per run cycle: stop() was called while it was being executed
    rclient,      \* the runner's IOT client: stopped, alive, notalive
    stopPc,       \* position of the thread calling ThingRunner.stop()
    seen,         \* last result of shutdown_requested / wait_for_shutdown
    runs          \* number of calls of run()

VARIABLES
    evt,          \* the request event handed to _except_if_failed
    evtRaised     \* what _except_if_failed raised for it

VARIABLES
    sendRef,      \* the thread self.__send_thread refers to (0: None)
    recvRef,      \* the thread self.__recv_thread refers to (0: None)
    threads,      \* per created session thread: its kind and its position
    made,         \* number of session threads created so far
    apiPc,        \* per caller thread: position in AmqpLink.start() / stop()
    apiOp,        \* per caller thread: the method it called last
    apiRet,       \* per caller thread: where its stop() returns to
    apiJoin,      \* per caller thread: the thread it is joining
    apiOut        \* per caller thread: how its last call ended

VARIABLES
    queue,        \* RemoteFeed.get_recent: the generator's Queue of samples
    nput,         \* number of samples the recent-data callback has put
    recentSet,    \* the recent-data request is finished (evt.is_set())
    pollPc,       \* position of the consumer in the generator's loop
    yielded       \* the samples the generator has yielded, in order

linkVars == <<end, send_ready, recv_ready, send_thread, recv_thread, send_exc, recv_exc>>
sendVars == <<sendPc, sendPending>>
recvVars == <<recvPc, recvPending>>
callVars == <<callPc, callOp, timeout, sig, success, senderSeen, result, cycle, lifecycle>>
lockVars == <<send_lock, send_channel, pubPc>>
ackVars == <<prefetch, ackNum, unacked, last_id, tag, acks, wake>>
kaVars == <<kaSeen, kaCalled, kaReply, kaCb>>
cbVars == <<msgCb, dropped, kaSeen, kaCalled, kaReply, kaCb>>
reqVars == <<evSet, reqSuccess, reqExc, fulfils, waiter>>
\* The state outside AmqpLink.
thingVars == <<new_things, crReq, thPc, thOp, thOut, private_things, gets, gotThing>>
runnerVars == <<shutdown, bgthread, runPc, runMode, runExc, onShut, askedStop, rclient,
               stopPc, seen, runs>>
exceptVars == <<evt, evtRaised>>
concVars == <<sendRef, recvRef, threads, made, apiPc, apiOp, apiRet, apiJoin, apiOut>>
feedVars == <<queue, nput, recentSet, pollPc, yielded>>
miscVars == <<exceptVars, concVars, feedVars>>
otherVars == <<reqVars, thingVars, runnerVars, miscVars>>
vars == <<end, send_ready, recv_ready, send_thread, recv_thread, send_exc, recv_exc,
          sendPc, sendPending, recvPc, recvPending,
          callPc, callOp, timeout, sig, success, senderSeen, result, cycle, lifecycle,
          send_lock, send_channel, pubPc,
          prefetch, ackNum, unacked, last_id, tag, acks, wake,
          msgCb, dropped, kaSeen, kaCalled, kaReply, kaCb,
          evSet, reqSuccess, reqExc, fulfils, waiter,
          new_things, crReq, thPc, thOp, thOut, private_things, gets, gotThing,
          shutdown, bgthread, runPc, runMode, runExc, onShut, askedStop, rclient,
          stopPc, seen, runs,
          evt, evtRaised,
          sendRef, recvRef, threads, made, apiPc, apiOp, apiRet, apiJoin, apiOut,
          queue, nput, recentSet, pollPc, yielded>>

\* The threads that take the send lock: the callers of send() and the sender.
Callers == 1..NCallers
Sender == NCallers + 1

(***************************************************************************)
(* Exceptions.  A captured exception is a value that remembers which       *)
(* thread raised it and during which start() cycle.                        *)
(***************************************************************************)
NoExc == [by |-> "none", kind |-> "none", cycle |-> 0]

Exc(by, kind) == [by |-> by, kind |-> kind, cycle |-> cycle]

\* What the sender's connection can raise, by except clause of __send_run.
SendTransient == {"ConnectionForced", "AMQPError"}
SendKinds == SendTransient \cup {"Unexpected"}

\* What the receiver's connection can raise, by except clause of __recv_run.
RecvTransient == {"AccessRefused", "ConnectionForced", "SocketTimeout", "SSLError", "AMQPError"}
RecvKinds == RecvTransient \cup {"Unexpected"}

\* Thread.is_alive() of the two session threads.
SendThreadAlive == sendPc \notin {"none", "done"}
RecvThreadAlive == recvPc \notin {"none", "done"}

NoResult == [op |-> "none", exc |-> "none", cause |-> NoExc,
             value |-> FALSE, published |-> FALSE]

Returned(op, exc, cause) ==
    [op |-> op, exc |-> exc, cause |-> cause, value |-> FALSE, published |-> FALSE]

\* Lines 84, 86: the lock is free and no channel is stored; no send() is
\* under way.
LockIdle ==
    /\ send_lock = 0
    /\ send_channel = "none"
    /\ pubPc = [c \in Callers |-> "idle"]

\* Lines 71-79: the defaults in proportion (ackpc 0.5), nothing received.
AckIdle ==
    /\ prefetch = MaxPrefetch
    /\ ackNum = 1
    /\ unacked = 0
    /\ last_id = 0
    /\ tag = 0
    /\ acks = <<>>
    /\ wake = "none"

\* Lines 67-68: no callback has been called yet.
CbIdle ==
    /\ msgCb = "none"
    /\ dropped = FALSE
    /\ kaSeen = 0
    /\ kaCalled = 0
    /\ kaReply = "none"
    /\ kaCb = "none"

\* The requests, the exception objects a request can be failed with, the
\* threads that wait on requests.
Reqs == {"r1", "r2"}
ExcObjs == {"e1", "e2"}
Waiters == 1..NWaiters

\* RequestEvent.py lines 28-47: every request is pending; no thread has
\* called wait() or is_set().
NotCalled == [pc |-> "idle", op |-> "none", req |-> "r1",
              timeout |-> [timed |-> FALSE, ticks |-> 0], elapsed |-> 0, out |-> "none"]
ReqIdle ==
    /\ evSet = [r \in Reqs |-> FALSE]
    /\ reqSuccess = [r \in Reqs |-> "None"]
    /\ reqExc = [r \in Reqs |-> "none"]
    /\ fulfils = [r \in Reqs |-> 0]
    /\ waiter = [t \in Waiters |-> NotCalled]

\* The threads that use the IOT client.
Clients == 1..NClients

\* IOT/Client.py lines 106, 109: no Thing is cached; no thread has called
\* the client and no create request is under way.
ThingIdle ==
    /\ new_things = 0
    /\ crReq = [c \in Clients |-> "none"]
    /\ thPc = [c \in Clients |-> "idle"]
    /\ thOp = [c \in Clients |-> "none"]
    /\ thOut = [c \in Clients |-> "none"]
    /\ private_things = 0
    /\ gets = 0
    /\ gotThing = 0

\* ThingRunner.py lines 50-54: the shutdown Event is clear and there is no
\* background thread; run() and stop() have not been called.
RunnerIdle ==
    /\ shutdown = FALSE
    /\ bgthread = FALSE
    /\ runPc = [k \in 1..MaxRuns |-> "none"]
    /\ runMode = [k \in 1..MaxRuns |-> "none"]
    /\ runExc = [k \in 1..MaxRuns |-> "none"]
    /\ onShut = [k \in 1..MaxRuns |-> <<>>]
    /\ askedStop = [k \in 1..MaxRuns |-> FALSE]
    /\ rclient = "stopped"
    /\ stopPc = "idle"
    /\ seen = [op |-> "none", value |-> FALSE]
    /\ runs = 0

OtherIdle == ReqIdle /\ ThingIdle /\ RunnerIdle

\* No request event has been handed to _except_if_failed.
NoEvent == [success |-> "None", mapping |-> FALSE, hasMessage |-> FALSE, hasCode |-> FALSE,
            code |-> 0]

\* RemotePoint.py lines 100-104: the request is sent, the queue is empty and
\* its put is registered as the request's recent-data callback.
FeedIdle ==
    /\ queue = <<>>
    /\ nput = 0
    /\ recentSet = FALSE
    /\ pollPc = "get"
    /\ yielded = <<>>

\* Lines 84-90: no session thread yet; no caller inside start() or stop().
ConcIdle ==
    /\ sendRef = 0
    /\ recvRef = 0
    /\ threads = [i \in 1..MaxThreads |-> [kind |-> "none", st |-> "none"]]
    /\ made = 0
    /\ apiPc = [c \in 1..NCallers |-> [at |-> "idle", k |-> "none"]]
    /\ apiOp = [c \in 1..NCallers |-> "none"]
    /\ apiRet = [c \in 1..NCallers |-> "return"]
    /\ apiJoin = [c \in 1..NCallers |-> 0]
    /\ apiOut = [c \in 1..NCallers |-> "none"]

MiscIdle ==
    /\ evt = NoEvent
    /\ evtRaised = [exc |-> "unset", msg |-> "unset"]
    /\ ConcIdle
    /\ FeedIdle

\* Lines 43-90: the state after construction.
Constructed ==
    /\ end = FALSE
    /\ send_ready = FALSE
    /\ recv_ready = FALSE
    /\ send_thread = FALSE
    /\ recv_thread = FALSE
    /\ send_exc = NoExc
    /\ recv_exc = NoExc
    /\ sendPc = "none"
    /\ sendPending = "none"
    /\ recvPc = "none"
    /\ recvPending = "none"
    /\ callPc = "idle"
    /\ callOp = "none"
    /\ timeout = "finite"
    /\ sig = FALSE
    /\ success = FALSE
    /\ senderSeen = FALSE
    /\ result = NoResult
    /\ cycle = 0
    /\ lifecycle = "new"
    /\ LockIdle
    /\ AckIdle
    /\ CbIdle
    /\ OtherIdle

Init == Constructed /\ MiscIdle

(***************************************************************************)
(* Event.set() wakes a waiter: a caller blocked in Event.wait on that      *)
(* event returns True even if the event is cleared again before it runs.   *)
(***************************************************************************)
SigAfterSet(waiting) == IF callPc \in waiting THEN TRUE ELSE sig

(***************************************************************************)
(* The sender thread, AmqpLink.__send_run.                                 *)
(***************************************************************************)

\* Line 329: while not self.__end.is_set().
send_run_Head ==
    /\ sendPc = "head"
    /\ sendPc' = IF end THEN "done" ELSE "connect"
    /\ UNCHANGED <<linkVars, sendPending, recvVars, callVars>>
    /\ UNCHANGED <<lockVars, ackVars, cbVars, otherVars>>

\* Lines 359-374 with "break" missing at line 374: an unexpected error backs
\* off and retries like a transient one.
send_run_ExceptAlwaysRetries(kind) ==
    /\ send_ready' = FALSE
    /\ send_exc' = Exc("send", kind)
    /\ sendPc' = "backoff"
    /\ sendPending' = "none"

\* Lines 359-374: the except clauses.  Readiness is cleared and the error is
\* recorded; a transient error backs off (end.wait(2)), any other ends the loop.
send_run_Except(kind) ==
    /\ send_ready' = FALSE
    /\ send_exc' = Exc("send", kind)
    /\ sendPc' = IF kind \in SendTransient THEN "backoff" ELSE "done"
    /\ sendPending' = "none"

\* Lines 331-342: open the connection and the channel, store the channel, then
\* raise readiness; or the connection attempt raises.
send_run_Connect ==
    /\ sendPc = "connect"
    /\ \/ /\ send_channel' = "open"
          /\ send_ready' = TRUE
          /\ sig' = SigAfterSet({"ws_wait", "sw_wait"})
          /\ sendPc' = "poll"
          /\ UNCHANGED <<send_exc, sendPending>>
       \/ /\ \E kind \in SendKinds : send_run_Except(kind)
          /\ UNCHANGED <<sig, send_channel>>
    /\ UNCHANGED <<end, recv_ready, send_thread, recv_thread, recv_exc, recvVars,
                   callPc, callOp, timeout, success, senderSeen, result, cycle, lifecycle>>
    /\ UNCHANGED <<send_lock, pubPc, ackVars, cbVars, otherVars>>

\* Line 344 as "while True": the poll loop never looks at the shutdown flag.
SendPollExitNever == FALSE

\* Line 344: the poll loop's condition.
SendPollExit == end

\* Lines 344-353: one turn of the idle-poll loop is drain_events(0),
\* heartbeat_tick and end.wait(.25).  A turn that raises nothing leaves the
\* state as it is: it is a stuttering step.  This is the loop ending.
send_run_PollExit ==
    /\ sendPc = "poll"
    /\ SendPollExit
    /\ sendPending' = "none"
    /\ sendPc' = "finally"
    /\ UNCHANGED <<linkVars, recvVars, callVars>>
    /\ UNCHANGED <<lockVars, ackVars, cbVars, otherVars>>

\* Lines 344-353: a turn of the idle-poll loop raises.
send_run_PollRaise ==
    /\ sendPc = "poll"
    /\ ~SendPollExit
    /\ \E kind \in SendKinds : sendPending' = kind
    /\ sendPc' = "finally"
    /\ UNCHANGED <<linkVars, recvVars, callVars>>
    /\ UNCHANGED <<lockVars, ackVars, cbVars, otherVars>>

\* Lines 354-357 without the clear(): readiness survives the end of the poll loop.
SendFinallyReadyKept == send_ready

\* Lines 354-357: finally: with self.__send_lock: self.__send_ready.clear().
SendFinallyReady == FALSE

\* Lines 354-374: the finally clause, the channel and the connection close
\* (the channel stays stored), then either the
\* loop head (no exception) or the matching except clause.
send_run_Finally ==
    /\ sendPc = "finally"
    /\ send_channel' = "closed"
    /\ IF sendPending = "none"
         THEN /\ send_ready' = SendFinallyReady
              /\ sendPc' = "head"
              /\ UNCHANGED <<send_exc, sendPending>>
         ELSE send_run_Except(sendPending)
    /\ UNCHANGED <<end, recv_ready, send_thread, recv_thread, recv_exc, recvVars, callVars>>
    /\ UNCHANGED <<send_lock, pubPc, ackVars, cbVars, otherVars>>

\* Lines 363, 368 followed by a "break": the sender gives up after its backoff.
send_run_BackoffGivesUp ==
    /\ sendPc = "backoff"
    /\ sendPc' = "done"
    /\ UNCHANGED <<linkVars, sendPending, recvVars, callVars>>
    /\ UNCHANGED <<lockVars, ackVars, cbVars, otherVars>>

\* Lines 363, 368: self.__end.wait(2) returns (timeout or shutdown).
send_run_Backoff ==
    /\ sendPc = "backoff"
    /\ sendPc' = "head"
    /\ UNCHANGED <<linkVars, sendPending, recvVars, callVars>>
    /\ UNCHANGED <<lockVars, ackVars, cbVars, otherVars>>

send_run ==
    \/ send_run_Head
    \/ send_run_Connect
    \/ send_run_PollExit
    \/ send_run_PollRaise
    \/ send_run_Finally
    \/ send_run_Backoff

(***************************************************************************)
(* The receiver thread, AmqpLink.__recv_run.                               *)
(***************************************************************************)

\* Line 244: while not self.__end.is_set().
recv_run_Head ==
    /\ recvPc = "head"
    /\ recvPc' = IF end THEN "done" ELSE "connect"
    /\ UNCHANGED <<linkVars, recvPending, sendVars, callVars>>
    /\ UNCHANGED <<lockVars, ackVars, cbVars, otherVars>>

\* Lines 298-322: the except clauses.  Every clause records the error in
\* __recv_exc except ConnectionForced, which line 304 stores in __send_exc.
recv_run_Except(kind) ==
    /\ IF kind = "ConnectionForced"
         THEN /\ send_exc' = Exc("recv", kind)
              /\ UNCHANGED recv_exc
         ELSE /\ recv_exc' = Exc("recv", kind)
              /\ UNCHANGED send_exc
    /\ recvPc' = IF kind \in RecvTransient THEN "backoff" ELSE "done"
    /\ recvPending' = "none"

\* Lines 250-269: clear readiness, connect, register both consumers, then clear
\* the captured error and raise readiness; or the attempt raises.
recv_run_Connect ==
    /\ recvPc = "connect"
    /\ \/ /\ recv_exc' = NoExc
          /\ recv_ready' = TRUE
          /\ sig' = SigAfterSet({"wr_wait"})
          /\ recvPc' = "drain"
          /\ UNCHANGED <<send_exc, recvPending>>
       \/ /\ recv_ready' = FALSE
          /\ \E kind \in RecvKinds : recv_run_Except(kind)
          /\ UNCHANGED sig
    /\ UNCHANGED <<end, send_ready, send_thread, recv_thread, sendVars,
                   callPc, callOp, timeout, success, senderSeen, result, cycle, lifecycle>>
    /\ UNCHANGED <<lockVars, ackVars, cbVars, otherVars>>

\* Line 274: the drain loop's condition.
RecvDrainExit == end

\* Lines 274-286: one turn of the drain loop.  A turn that raises nothing
\* leaves the state modelled here as it is: it is a stuttering step.  This
\* is the loop ending.
recv_run_DrainExit ==
    /\ recvPc = "drain"
    /\ RecvDrainExit
    /\ recvPending' = "none"
    /\ recvPc' = "finally"
    /\ UNCHANGED <<linkVars, sendVars, callVars>>
    /\ UNCHANGED <<lockVars, ackVars, cbVars, otherVars>>

\* Lines 274-286: a turn of the drain loop raises.
recv_run_DrainRaise ==
    /\ recvPc = "drain"
    /\ ~RecvDrainExit
    /\ \E kind \in RecvKinds : recvPending' = kind
    /\ recvPc' = "finally"
    /\ UNCHANGED <<linkVars, sendVars, callVars>>
    /\ UNCHANGED <<lockVars, ackVars, cbVars, otherVars>>

\* Lines 287-288 without the clear(): readiness survives the drain loop.
RecvFinallyReadyKept == recv_ready

\* Lines 287-288: finally: self.__recv_ready.clear().
RecvFinallyReady == FALSE

\* Lines 287-322: finally: self.__recv_ready.clear(), cancel both consumers; the
\* connection closes; then the loop head or the matching except clause.
recv_run_Finally ==
    /\ recvPc = "finally"
    /\ recv_ready' = RecvFinallyReady
    /\ IF recvPending = "none"
         THEN /\ recvPc' = "head"
              /\ UNCHANGED <<send_exc, recv_exc, recvPending>>
         ELSE recv_run_Except(recvPending)
    /\ UNCHANGED <<end, send_ready, send_thread, recv_thread, sendVars, callVars>>
    /\ UNCHANGED <<lockVars, ackVars, cbVars, otherVars>>

\* Lines 301-317: self.__end.wait(2) returns (timeout or shutdown).
recv_run_Backoff ==
    /\ recvPc = "backoff"
    /\ recvPc' = "head"
    /\ UNCHANGED <<linkVars, recvPending, sendVars, callVars>>
    /\ UNCHANGED <<lockVars, ackVars, cbVars, otherVars>>

recv_run ==
    \/ recv_run_Head
    \/ recv_run_Connect
    \/ recv_run_DrainExit
    \/ recv_run_DrainRaise
    \/ recv_run_Finally
    \/ recv_run_Backoff

(***************************************************************************)
(* The caller thread: AmqpLink.start, stop, send and is_alive.             *)
(***************************************************************************)

\* Line 95 testing the threads' liveness in place of the handles.
StartGuardAlive == ~(RecvThreadAlive \/ SendThreadAlive)

\* Line 95: if not (self.__recv_thread or self.__send_thread).
StartGuard == ~(recv_thread \/ send_thread)

\* Lines 95-102: the guard holds: clear the three Events, create and start the
\* sender thread.
start_Begin ==
    /\ callPc = "idle"
    /\ cycle < MaxStarts
    /\ StartGuard
    /\ end' = FALSE
    /\ send_ready' = FALSE
    /\ recv_ready' = FALSE
    /\ send_thread' = TRUE
    /\ sendPc' = "head"
    /\ callPc' = "ws_enter"
    /\ callOp' = "start"
    /\ cycle' = cycle + 1
    /\ success' = FALSE
    /\ senderSeen' = FALSE
    /\ result' = NoResult
    /\ UNCHANGED <<recv_thread, send_exc, recv_exc, sendPending, recvVars,
                   timeout, sig, lifecycle>>
    /\ UNCHANGED <<lockVars, ackVars, cbVars, otherVars>>

\* Lines 121-122: the guard fails.
start_AlreadyStarted ==
    /\ callPc = "idle"
    /\ ~StartGuard
    /\ result' = Returned("start", "amqplink already started", NoExc)
    /\ UNCHANGED <<linkVars, sendVars, recvVars,
                   callPc, callOp, timeout, sig, success, senderSeen, cycle, lifecycle>>
    /\ UNCHANGED <<lockVars, ackVars, cbVars, otherVars>>

\* Line 104: self.__send_ready.wait(timeout=2.5) reads the flag and, if it is
\* clear, starts to wait.
start_EnterSendWait ==
    /\ callPc = "ws_enter"
    /\ sig' = send_ready
    /\ callPc' = "ws_wait"
    /\ UNCHANGED <<linkVars, sendVars, recvVars,
                   callOp, timeout, success, senderSeen, result, cycle, lifecycle>>
    /\ UNCHANGED <<lockVars, ackVars, cbVars, otherVars>>

\* Line 105 with the test dropped: the receiver is started whatever the wait returned.
StartsReceiverAlways(ok) == TRUE

\* Line 105: if success.
StartsReceiver(ok) == ok

\* Lines 104-108: the sender readiness wait returns: True when signalled, False
\* on timeout.  On True the receiver thread is created and started.
start_AfterSendWait ==
    /\ callPc = "ws_wait"
    /\ \E ok \in BOOLEAN :
         /\ ok = sig
         /\ success' = ok
         /\ senderSeen' = ok
         /\ IF StartsReceiver(ok)
              THEN /\ recv_thread' = TRUE
                   /\ recvPc' = "head"
                   /\ callPc' = "wr_enter"
              ELSE /\ callPc' = "stop_end"
                   /\ UNCHANGED <<recv_thread, recvPc>>
    /\ sig' = FALSE
    /\ UNCHANGED <<end, send_ready, recv_ready, send_thread, send_exc, recv_exc,
                   sendVars, recvPending, callOp, timeout, result, cycle, lifecycle>>
    /\ UNCHANGED <<lockVars, ackVars, cbVars, otherVars>>

\* Line 108: self.__recv_ready.wait(timeout=2.5) reads the flag and, if it is
\* clear, starts to wait.
start_EnterRecvWait ==
    /\ callPc = "wr_enter"
    /\ sig' = recv_ready
    /\ callPc' = "wr_wait"
    /\ UNCHANGED <<linkVars, sendVars, recvVars,
                   callOp, timeout, success, senderSeen, result, cycle, lifecycle>>
    /\ UNCHANGED <<lockVars, ackVars, cbVars, otherVars>>

\* Lines 108-110: the receiver readiness wait returns.  On True start() returns;
\* on timeout it goes on to self.stop() (line 112).
start_AfterRecvWait ==
    /\ callPc = "wr_wait"
    /\ success' = sig
    /\ IF sig
         THEN /\ callPc' = "idle"
              /\ callOp' = "none"
              /\ result' = Returned("start", "none", NoExc)
              /\ lifecycle' = "started"
         ELSE /\ callPc' = "stop_end"
              /\ UNCHANGED <<callOp, result, lifecycle>>
    /\ sig' = FALSE
    /\ UNCHANGED <<linkVars, sendVars, recvVars, timeout, senderSeen, cycle>>
    /\ UNCHANGED <<lockVars, ackVars, cbVars, otherVars>>

\* Line 135: self.__end.set(), in stop() called by the caller or by start().
stop_SetEnd ==
    /\ \/ /\ callPc = "idle"
          /\ callOp' = "stop"
          /\ result' = NoResult
       \/ /\ callPc = "stop_end"
          /\ UNCHANGED <<callOp, result>>
    /\ end' = TRUE
    /\ callPc' = "join_recv"
    /\ UNCHANGED <<send_ready, recv_ready, send_thread, recv_thread, send_exc, recv_exc,
                   sendVars, recvVars, timeout, sig, success, senderSeen, cycle, lifecycle>>
    /\ UNCHANGED <<lockVars, ackVars, cbVars, otherVars>>

\* Lines 138, 141 left out: the handle survives the join.
HandleAfterJoinKept == TRUE

\* Lines 138, 141: self.__recv_thread = None, self.__send_thread = None.
HandleAfterJoin == FALSE

\* The lifecycle after a stop() that returned: was the manager running or not?
Stopped == {"stopped", "restopped"}
AfterStop == IF lifecycle \in {"new", "stopped", "restopped"} THEN "restopped" ELSE "stopped"

\* Lines 136-138 without the join: the handle is forgotten while the thread runs.
stop_JoinRecvNoWait ==
    /\ callPc = "join_recv"
    /\ recv_thread' = FALSE
    /\ callPc' = "join_send"
    /\ UNCHANGED <<end, send_ready, recv_ready, send_thread, send_exc, recv_exc,
                   sendVars, recvVars,
                   callOp, timeout, sig, success, senderSeen, result, cycle, lifecycle>>
    /\ UNCHANGED <<lockVars, ackVars, cbVars, otherVars>>

\* Lines 136-138: if self.__recv_thread: join it, then forget the handle.
stop_JoinRecv ==
    /\ callPc = "join_recv"
    /\ IF recv_thread
         THEN /\ ~RecvThreadAlive
              /\ recv_thread' = HandleAfterJoin
              /\ recvPc' = "none"
         ELSE UNCHANGED <<recv_thread, recvPc>>
    /\ callPc' = "join_send"
    /\ UNCHANGED <<end, send_ready, recv_ready, send_thread, send_exc, recv_exc,
                   sendVars, recvPending,
                   callOp, timeout, sig, success, senderSeen, result, cycle, lifecycle>>
    /\ UNCHANGED <<lockVars, ackVars, cbVars, otherVars>>

\* Lines 139-141: if self.__send_thread: join it, then forget the handle; stop()
\* returns, to the caller or into start() (line 113).
stop_JoinSend ==
    /\ callPc = "join_send"
    /\ IF send_thread
         THEN /\ ~SendThreadAlive
              /\ send_thread' = HandleAfterJoin
              /\ sendPc' = "none"
         ELSE UNCHANGED <<send_thread, sendPc>>
    /\ IF callOp = "stop"
         THEN /\ callPc' = "idle"
              /\ callOp' = "none"
              /\ result' = Returned("stop", "none", NoExc)
              /\ lifecycle' = AfterStop
         ELSE /\ callPc' = "raise"
              /\ UNCHANGED <<callOp, result, lifecycle>>
    /\ UNCHANGED <<end, send_ready, recv_ready, recv_thread, send_exc, recv_exc,
                   sendPending, recvVars, timeout, sig, success, senderSeen, cycle>>
    /\ UNCHANGED <<lockVars, ackVars, cbVars, otherVars>>

\* Lines 113-119 with the two tests in the other order.
StartFailureSendFirst ==
    IF send_exc # NoExc
      THEN Returned("start", "Send thread failure", send_exc)
      ELSE IF recv_exc # NoExc
             THEN Returned("start", "Receive thread failure", recv_exc)
             ELSE Returned("start", "Unknown link failure (timeout reached)", NoExc)

\* Lines 113-119: which error start() raises after a readiness timeout.
StartFailure ==
    IF recv_exc # NoExc
      THEN Returned("start", "Receive thread failure", recv_exc)
      ELSE IF send_exc # NoExc
             THEN Returned("start", "Send thread failure", send_exc)
             ELSE Returned("start", "Unknown link failure (timeout reached)", NoExc)

\* Lines 113-119: start() raises.
start_Raise ==
    /\ callPc = "raise"
    /\ result' = StartFailure
    /\ callPc' = "idle"
    /\ callOp' = "none"
    /\ lifecycle' = "failed"
    /\ UNCHANGED <<linkVars, sendVars, recvVars, timeout, sig, success, senderSeen, cycle>>
    /\ UNCHANGED <<lockVars, ackVars, cbVars, otherVars>>

\* The timeout arguments of send(): a number of seconds, or None to block.
Timeouts == {"finite", "None"}

\* Line 152: send() is called; self.__send_ready.wait(timeout) reads the flag and,
\* if it is clear, starts to wait.
send_Call ==
    /\ callPc = "idle"
    /\ \E t \in Timeouts : timeout' = t
    /\ sig' = send_ready
    /\ callPc' = "sw_wait"
    /\ callOp' = "send"
    /\ result' = NoResult
    /\ UNCHANGED <<linkVars, sendVars, recvVars, success, senderSeen, cycle, lifecycle>>
    /\ UNCHANGED <<lockVars, ackVars, cbVars, otherVars>>

\* Line 152: the wait returns True.
send_WaitReady ==
    /\ callPc = "sw_wait"
    /\ sig
    /\ sig' = FALSE
    /\ callPc' = "publish"
    /\ UNCHANGED <<linkVars, sendVars, recvVars,
                   callOp, timeout, success, senderSeen, result, cycle, lifecycle>>
    /\ UNCHANGED <<lockVars, ackVars, cbVars, otherVars>>

\* Lines 165-169 reading the receiver's captured error.
SendUnavailableRecv ==
    IF recv_exc # NoExc
      THEN Returned("send", "Sender unavailable", recv_exc)
      ELSE Returned("send", "Sender unavailable (unknown error)", NoExc)

\* Lines 165-169: which error send() raises when the sender is not ready.
SendUnavailable ==
    IF send_exc # NoExc
      THEN Returned("send", "Sender unavailable", send_exc)
      ELSE Returned("send", "Sender unavailable (unknown error)", NoExc)

\* May a wait with this timeout argument time out?
CanTimeOut(t) == t # "None"

\* Lines 152, 164-169: the wait times out and send() raises.
send_WaitTimeout ==
    /\ callPc = "sw_wait"
    /\ ~sig
    /\ CanTimeOut(timeout)
    /\ result' = SendUnavailable
    /\ callPc' = "idle"
    /\ callOp' = "none"
    /\ timeout' = "finite"
    /\ UNCHANGED <<linkVars, sendVars, recvVars, sig, success, senderSeen, cycle, lifecycle>>
    /\ UNCHANGED <<lockVars, ackVars, cbVars, otherVars>>

\* Lines 158-163 with the second except clause first: AccessRefused is an
\* AMQPError, so the clause for AMQPError and OSError would take it.
PublishFailureTransportFirst(raised) ==
    CASE raised \in {"AccessRefused", "AMQPError", "OSError"} -> "amqp/transport failure"
      [] OTHER -> "unexpected failure"

\* Lines 158-163: the LinkException a failing basic_publish is turned into.
PublishFailure(raised) ==
    CASE raised = "AccessRefused" -> "Access denied"
      [] raised \in {"AMQPError", "OSError"} -> "amqp/transport failure"
      [] OTHER -> "unexpected failure"

\* basic_publish returns, or raises AccessRefused, another AMQPError, an OSError
\* or anything else.
PublishOutcomes == {"ok", "AccessRefused", "AMQPError", "OSError", "Unexpected"}

\* Lines 153-163: with self.__send_lock: basic_publish; it returns or raises.
send_Publish ==
    /\ callPc = "publish"
    /\ \E raised \in PublishOutcomes :
         result' = [Returned("send",
                             IF raised = "ok" THEN "none" ELSE PublishFailure(raised),
                             IF raised = "ok" THEN NoExc ELSE Exc("publish", raised))
                    EXCEPT !.published = TRUE]
    /\ callPc' = "idle"
    /\ callOp' = "none"
    /\ timeout' = "finite"
    /\ UNCHANGED <<linkVars, sendVars, recvVars, sig, success, senderSeen, cycle, lifecycle>>
    /\ UNCHANGED <<lockVars, ackVars, cbVars, otherVars>>

\* Lines 127-130 without the test of the readiness flags.
IsAliveThreadsOnly == send_thread /\ recv_thread /\ SendThreadAlive /\ RecvThreadAlive

\* Lines 127-130: the value is_alive() returns.
IsAlive ==
    IF send_ready /\ recv_ready
      THEN IF send_thread /\ recv_thread
             THEN SendThreadAlive /\ RecvThreadAlive
             ELSE FALSE
      ELSE FALSE

\* Lines 124-130: is_alive() is called and returns.
is_alive ==
    /\ callPc = "idle"
    /\ result' = [Returned("is_alive", "none", NoExc) EXCEPT !.value = IsAlive]
    /\ UNCHANGED <<linkVars, sendVars, recvVars,
                   callPc, callOp, timeout, sig, success, senderSeen, cycle, lifecycle>>
    /\ UNCHANGED <<lockVars, ackVars, cbVars, otherVars>>

start ==
    \/ start_Begin
    \/ start_AlreadyStarted
    \/ start_EnterSendWait
    \/ start_AfterSendWait
    \/ start_EnterRecvWait
    \/ start_AfterRecvWait
    \/ start_Raise

stop ==
    \/ stop_SetEnd
    \/ stop_JoinRecv
    \/ stop_JoinSend

send ==
    \/ send_Call
    \/ send_WaitReady
    \/ send_WaitTimeout
    \/ send_Publish

Next ==
    \/ start
    \/ stop
    \/ send
    \/ is_alive
    \/ send_run
    \/ recv_run

Spec == Init /\ [][Next]_vars

(***************************************************************************)
(* Fairness: a session thread that can take a step other than having its   *)
(* connection raise eventually takes one, and a join returns once the      *)
(* joined thread has ended.                                                *)
(***************************************************************************)
send_run_Scheduled ==
    \/ send_run_Head
    \/ send_run_Connect
    \/ send_run_PollExit
    \/ send_run_Finally
    \/ send_run_Backoff

recv_run_Scheduled ==
    \/ recv_run_Head
    \/ recv_run_Connect
    \/ recv_run_DrainExit
    \/ recv_run_Finally
    \/ recv_run_Backoff

stop_Joins ==
    \/ stop_JoinRecv
    \/ stop_JoinSend

FairSpec ==
    /\ Spec
    /\ WF_vars(send_run_Scheduled)
    /\ WF_vars(recv_run_Scheduled)
    /\ WF_vars(stop_Joins)

(***************************************************************************)
(* Properties.                                                             *)
(***************************************************************************)

\* The caller is inside the stop() that a failing start() runs, or about to raise.
StartFailing == callOp = "start" /\ callPc \in {"stop_end", "join_recv", "join_send", "raise"}

\* start() has raised after a readiness timeout and nothing was called since.
StartFailed ==
    /\ callPc = "idle"
    /\ lifecycle = "failed"
    /\ result.op = "start"
    /\ result.exc \notin {"none", "amqplink already started"}

\* C1: in start() the receiver thread is created and started only by the step
\* in which the sender readiness wait of that same call returned True (the flag
\* was seen set during the wait); and once that wait has timed out no receiver
\* thread exists for the rest of the call.
C1_ReceiverOnlyAfterSenderReady ==
    /\ [][(recv_thread' /\ ~recv_thread) =>
            (callOp = "start" /\ callPc = "ws_wait" /\ sig /\ senderSeen')]_vars
    /\ []((StartFailing /\ ~senderSeen) => (~recv_thread /\ recvPc = "none"))

\* C1 witness: start() has just started the receiver after seeing the sender ready.
C1_Witness ==
    /\ callOp = "start"
    /\ callPc = "wr_enter"
    /\ senderSeen
    /\ recv_thread
    /\ recvPc = "head"

\* C2 as claimed: whatever its timeout argument (None included), a send() called
\* after stop() with no start() in between sits in its readiness wait and that
\* wait can end in the 'Sender unavailable' error: it does not hang.
C2_SendAfterStopNeverHangs ==
    (lifecycle \in Stopped /\ callOp = "send") =>
        (callPc = "sw_wait" /\ ENABLED send_WaitTimeout)

\* C2 as amended: for every finite timeout argument, a send() called after
\* stop() with no start() in between sits in its readiness wait, that wait can
\* end in the timeout, and the call ends with no publish and one of the two
\* 'Sender unavailable' errors.
C2_FiniteSendAfterStopFails ==
    /\ (lifecycle \in Stopped /\ callOp = "send" /\ timeout = "finite") =>
           (callPc = "sw_wait" /\ ~sig /\ ENABLED send_WaitTimeout)
    /\ (lifecycle \in Stopped /\ callPc = "idle" /\ result.op = "send") =>
           /\ ~result.published
           /\ result.exc \in {"Sender unavailable", "Sender unavailable (unknown error)"}

\* C2 witness: a send() after the stop() of a manager that had been running
\* has failed with 'Sender unavailable'.
C2_Witness ==
    /\ lifecycle = "stopped"
    /\ callPc = "idle"
    /\ result.op = "send"
    /\ result.exc = "Sender unavailable"

\* C3 as claimed: when start() fails after the sender readiness wait timed out,
\* is_alive() is false and the error raised is caused by the error the sender
\* thread recorded during this start() (the generic error if it recorded none):
\* not by a receiver error, not by one left over from an earlier cycle.
C3_SurfacesThisCyclesSenderError ==
    (StartFailed /\ ~senderSeen) =>
        /\ ~IsAlive
        /\ result.cause = IF send_exc.by = "send" /\ send_exc.cycle = cycle
                            THEN send_exc
                            ELSE NoExc

\* C4: the error start() raises after a readiness timeout is chosen by fixed
\* priority: the receiver's captured error if there is one ('Receive thread
\* failure'), also when the sender's is captured too; else the sender's ('Send
\* thread failure'); else the generic timeout failure.
C4_ReceiverErrorFirst ==
    StartFailed =>
        /\ recv_exc # NoExc =>
             (result.exc = "Receive thread failure" /\ result.cause = recv_exc)
        /\ (recv_exc = NoExc /\ send_exc # NoExc) =>
             (result.exc = "Send thread failure" /\ result.cause = send_exc)
        /\ (recv_exc = NoExc /\ send_exc = NoExc) =>
             (result.exc = "Unknown link failure (timeout reached)" /\ result.cause = NoExc)

\* C4 witness: start() raised the receiver's error while the sender's was captured too.
C4_Witness ==
    /\ StartFailed
    /\ result.exc = "Receive thread failure"
    /\ send_exc # NoExc
    /\ recv_exc # NoExc

\* C5: when start() raises after a readiness timeout the shutdown flag is set,
\* both session threads have ended and were joined, both handles are None,
\* is_alive() is false and the guard of start() holds again.
C5_FailedStartTornDown ==
    (callPc = "raise" \/ (callPc = "idle" /\ lifecycle = "failed")) =>
        /\ end
        /\ sendPc = "none"
        /\ recvPc = "none"
        /\ ~send_thread
        /\ ~recv_thread
        /\ ~IsAlive
        /\ StartGuard

\* C5 witness: start() is about to raise after the receiver wait timed out, so
\* both threads had been started.
C5_Witness ==
    /\ callPc = "raise"
    /\ senderSeen

\* start() is entered: lines 95-122, either branch of the guard.
start_Call == start_Begin \/ start_AlreadyStarted

\* C6: a start() entered while a thread handle exists raises 'amqplink already
\* started' and changes nothing of the manager or of its threads.
C6_AlreadyStartedChangesNothing ==
    [][((send_thread \/ recv_thread) /\ start_Call) =>
         /\ result'.exc = "amqplink already started"
         /\ callPc' = "idle"
         /\ UNCHANGED <<linkVars, sendVars, recvVars, cycle, lifecycle>>]_vars

\* C6 witness: start() was refused while the sender thread had ended for good
\* and its handle was still there.
C6_Witness ==
    /\ callPc = "idle"
    /\ result.exc = "amqplink already started"
    /\ send_thread
    /\ sendPc = "done"

\* A session that is not Ready: not started or stopped, ended for good, in its
\* backoff, or connecting.
SessionDown(pc) == pc \in {"none", "done", "backoff", "head", "connect"}

C8_StopTerminates ==
    (end /\ callPc = "join_recv") ~>
        (callPc \in {"idle", "raise"} /\ ~send_thread /\ ~recv_thread
           /\ sendPc = "none" /\ recvPc = "none")

\* C8 witness: the stop() of a running manager has joined the receiver and finds
\* the sender ended.
C8_Witness ==
    /\ callOp = "stop"
    /\ callPc = "join_send"
    /\ lifecycle = "started"
    /\ send_thread
    /\ sendPc = "done"

\* C9: after every stop() the shutdown flag is set, the handles are None, the
\* readiness flags are clear and the guard of start() holds; a stop() of a
\* manager that is stopped already returns without error and changes none of it.
C9_StopIdempotent ==
    /\ []((callPc = "idle" /\ lifecycle \in Stopped) =>
            /\ end
            /\ ~send_thread /\ ~recv_thread
            /\ sendPc = "none" /\ recvPc = "none"
            /\ ~send_ready /\ ~recv_ready
            /\ StartGuard)
    /\ []((callPc = "idle" /\ result.op = "stop") => result.exc = "none")
    /\ [][(lifecycle \in Stopped /\ (callOp = "stop" \/ callOp' = "stop")) =>
            UNCHANGED <<linkVars, sendVars, recvVars>>]_vars

\* C9 witness: after a stop() of a manager that was not running, a start() has
\* brought both sessions to Ready.
C9_Witness ==
    /\ lifecycle = "restopped"
    /\ callOp = "start"
    /\ callPc = "wr_wait"
    /\ sig
    /\ IsAlive

\* C10: when the readiness wait of send() ends, either the sender was seen ready
\* and send() goes on to publish, or the wait timed out (finite timeout) and
\* send() raises without publishing: 'Sender unavailable' caused by the content
\* of the sender's error slot, or the 'unknown error' variant if it is empty.
C10_SendUnavailable ==
    [][(callPc = "sw_wait" /\ callPc' # "sw_wait") =>
         IF sig
           THEN callPc' = "publish"
           ELSE /\ timeout = "finite"
                /\ callPc' = "idle"
                /\ ~result'.published
                /\ result'.cause = send_exc
                /\ result'.exc = IF send_exc # NoExc
                                   THEN "Sender unavailable"
                                   ELSE "Sender unavailable (unknown error)"]_vars

\* C10 witness: a send() has failed with the error the sender thread recorded.
C10_Witness ==
    /\ callPc = "idle"
    /\ result.op = "send"
    /\ result.exc = "Sender unavailable"
    /\ ~result.published
    /\ result.cause.by = "send"

\* The messages of the LinkExceptions send() raises.
SendErrors ==
    {"Sender unavailable", "Sender unavailable (unknown error)",
     "Access denied", "amqp/transport failure", "unexpected failure"}

\* C11: send() ends by returning or with a LinkException: 'Access denied' when
\* the publish raised AccessRefused, 'amqp/transport failure' for any other
\* AMQPError or an OSError, 'unexpected failure' for anything else, 'Sender
\* unavailable' without a publish; and no step of send() changes the readiness
\* flags, the captured errors or anything else of the manager.
C11_SendFailuresAreLinkExceptions ==
    [][((callPc = "idle" /\ callOp' = "send") \/ (callOp = "send" /\ callPc' # callPc)) =>
         /\ UNCHANGED <<linkVars, sendVars, recvVars>>
         /\ callPc' = "idle" =>
              /\ result'.op = "send"
              /\ result'.exc \in SendErrors \cup {"none"}
              /\ result'.exc = "none" <=> (result'.published /\ result'.cause = NoExc)
              /\ result'.published =>
                   /\ result'.cause.kind = "AccessRefused" => result'.exc = "Access denied"
                   /\ result'.cause.kind \in {"AMQPError", "OSError"} =>
                        result'.exc = "amqp/transport failure"
                   /\ result'.cause.kind = "Unexpected" => result'.exc = "unexpected failure"
              /\ ~result'.published =>
                   result'.exc \in {"Sender unavailable", "Sender unavailable (unknown error)"}]_vars

\* C11 witness: a publish raised AccessRefused and send() raised 'Access denied'.
C11_Witness ==
    /\ callPc = "idle"
    /\ result.op = "send"
    /\ result.published
    /\ result.cause.kind = "AccessRefused"
    /\ result.exc = "Access denied"

\* A session thread's step out of a connect attempt or a teardown that raised.
SendFailStep == sendPc \in {"connect", "finally"} /\ sendPc' \in {"backoff", "done"}
RecvFailStep == recvPc \in {"connect", "finally"} /\ recvPc' \in {"backoff", "done"}

\* The errors of the receiver's current thread that the slots hold after a
\* step: in __recv_exc, or in __send_exc for a forced disconnect (line 304).
RecvRecorded == {e \in {send_exc', recv_exc'} : e.by = "recv" /\ e.cycle = cycle}

\* C14: in both sessions a transient failure leaves the session's readiness
\* clear and its error stored in a captured-error slot, and takes the thread to
\* its backoff; unless shutdown is requested the backoff is followed by a new
\* connect attempt, and an attempt that succeeds sets the readiness flag
\* again; however many failures came before.
C14_TransientFailuresRetry ==
    /\ [][SendFailStep =>
            /\ ~send_ready'
            /\ send_exc' = [by |-> "send", kind |-> send_exc'.kind, cycle |-> cycle]
            /\ send_exc'.kind \in SendKinds
            /\ send_exc'.kind \in SendTransient <=> sendPc' = "backoff"]_vars
    /\ [][RecvFailStep =>
            /\ ~recv_ready'
            /\ \E e \in RecvRecorded :
                  /\ e.kind \in RecvKinds
                  /\ e.kind \in RecvTransient <=> recvPc' = "backoff"]_vars
    /\ [][(sendPc = "connect" /\ sendPc' = "poll") => send_ready']_vars
    /\ [][(recvPc = "connect" /\ recvPc' = "drain") => recv_ready']_vars
    /\ (sendPc = "backoff") ~> (sendPc = "connect" \/ end)
    /\ (recvPc = "backoff") ~> (recvPc = "connect" \/ end)

\* C14 witness: both sessions are Ready again after a transient failure each
\* in the current cycle.
C14_Witness ==
    /\ sendPc = "poll" /\ send_ready
    /\ send_exc.by = "send" /\ send_exc.cycle = cycle
    /\ recvPc = "drain" /\ recv_ready
    /\ recvPending = "none"
    /\ lifecycle = "started"
    /\ callPc = "idle"
    /\ result.op = "is_alive" /\ ~result.value

LockInit ==
    /\ end = FALSE
    /\ send_ready = FALSE
    /\ recv_ready = FALSE
    /\ send_thread = TRUE
    /\ recv_thread = FALSE
    /\ send_exc = NoExc
    /\ recv_exc = NoExc
    /\ sendPc = "head"
    /\ sendPending = "none"
    /\ recvPc = "none"
    /\ recvPending = "none"
    /\ callPc = "ws_enter"
    /\ callOp = "start"
    /\ timeout = "finite"
    /\ sig = FALSE
    /\ success = FALSE
    /\ senderSeen = FALSE
    /\ result = NoResult
    /\ cycle = 1
    /\ lifecycle = "new"
    /\ LockIdle
    /\ AckIdle
    /\ CbIdle
    /\ OtherIdle
    /\ MiscIdle

\* What the steps of this specification leave alone.
lockFrame == <<recv_ready, send_thread, recv_thread, recv_exc, recvVars, callVars, ackVars,
               cbVars, otherVars>>

\* Lines 154, 345, 356 without the lock.
LockAvailableAlways == TRUE

\* RLock.acquire by a thread that does not hold the lock: it must be free.
LockAvailable == send_lock = 0

\* Line 135 (stop() in another thread): self.__end.set().
end_set ==
    /\ ~end
    /\ end' = TRUE
    /\ UNCHANGED <<send_ready, send_exc, sendVars, lockVars, lockFrame>>

\* Line 329: while not self.__end.is_set().
sender_Head ==
    /\ sendPc = "head"
    /\ sendPc' = IF end THEN "done" ELSE "connect"
    /\ UNCHANGED <<end, send_ready, send_exc, sendPending, lockVars, lockFrame>>

\* Lines 330-341: connect, open the channel, store it and raise readiness,
\* which wakes every send() waiting for it; or the attempt raises.
sender_Connect ==
    /\ sendPc = "connect"
    /\ \/ /\ send_channel' = "open"
          /\ send_ready' = TRUE
          /\ pubPc' = [c \in Callers |-> IF pubPc[c] = "waiting" THEN "passed" ELSE pubPc[c]]
          /\ sendPc' = "poll_head"
          /\ UNCHANGED <<send_exc, sendPending>>
       \/ /\ \E kind \in SendKinds : send_run_Except(kind)
          /\ UNCHANGED <<send_channel, pubPc>>
    /\ UNCHANGED <<end, send_lock, lockFrame>>

\* Line 344: the poll loop's condition is false.
sender_PollExit ==
    /\ sendPc = "poll_head"
    /\ end
    /\ sendPc' = "fin_acquire"
    /\ UNCHANGED <<end, send_ready, send_exc, sendPending, lockVars, lockFrame>>

\* Lines 344-345: the condition is true; with self.__send_lock.
sender_PollAcquire ==
    /\ sendPc = "poll_head"
    /\ ~end
    /\ LockAvailable
    /\ send_lock' = Sender
    /\ sendPc' = "poll_locked"
    /\ UNCHANGED <<end, send_ready, send_exc, sendPending, send_channel, pubPc, lockFrame>>

\* Lines 346-351: drain_events(0) and heartbeat_tick() under the lock, which
\* the with statement releases whether they return or raise.
sender_Drain ==
    /\ sendPc = "poll_locked"
    /\ send_lock' = 0
    /\ \/ /\ sendPc' = "poll_idle"
          /\ UNCHANGED sendPending
       \/ /\ \E kind \in SendKinds : sendPending' = kind
          /\ sendPc' = "fin_acquire"
    /\ UNCHANGED <<end, send_ready, send_exc, send_channel, pubPc, lockFrame>>

\* Line 353: self.__end.wait(.25) returns.
sender_Idle ==
    /\ sendPc = "poll_idle"
    /\ sendPc' = "poll_head"
    /\ UNCHANGED <<end, send_ready, send_exc, sendPending, lockVars, lockFrame>>

\* Lines 354-356: finally: with self.__send_lock.
sender_FinallyAcquire ==
    /\ sendPc = "fin_acquire"
    /\ LockAvailable
    /\ send_lock' = Sender
    /\ sendPc' = "fin_locked"
    /\ UNCHANGED <<end, send_ready, send_exc, sendPending, send_channel, pubPc, lockFrame>>

\* Line 357: self.__send_ready.clear(); the lock is released and the two with
\* blocks of lines 331-338 start to close the channel and the connection.
sender_FinallyClear ==
    /\ sendPc = "fin_locked"
    /\ send_ready' = FALSE
    /\ send_lock' = 0
    /\ send_channel' = "closing"
    /\ sendPc' = "closing"
    /\ UNCHANGED <<end, send_exc, sendPending, pubPc, lockFrame>>

\* Lines 331-338, 359-374: the connection is closed; then the loop head, or
\* the except clause of the error that ended the poll loop.
sender_Close ==
    /\ sendPc = "closing"
    /\ send_channel' = "closed"
    /\ IF sendPending = "none"
         THEN /\ sendPc' = "head"
              /\ UNCHANGED <<send_ready, send_exc, sendPending>>
         ELSE send_run_Except(sendPending)
    /\ UNCHANGED <<end, send_lock, pubPc, lockFrame>>

\* Lines 363, 368: self.__end.wait(2) returns.
sender_Backoff ==
    /\ sendPc = "backoff"
    /\ sendPc' = "head"
    /\ UNCHANGED <<end, send_ready, send_exc, sendPending, lockVars, lockFrame>>

\* Line 152: send() enters self.__send_ready.wait(timeout), which returns
\* True at once if the Event is set.
sendN_Call(c) ==
    /\ pubPc[c] = "idle"
    /\ pubPc' = [pubPc EXCEPT ![c] = IF send_ready THEN "passed" ELSE "waiting"]
    /\ UNCHANGED <<end, send_ready, send_exc, sendVars, send_lock, send_channel, lockFrame>>

\* Lines 152, 164-169: the wait times out and send() raises.
sendN_Timeout(c) ==
    /\ pubPc[c] = "waiting"
    /\ pubPc' = [pubPc EXCEPT ![c] = "idle"]
    /\ UNCHANGED <<end, send_ready, send_exc, sendVars, send_lock, send_channel, lockFrame>>

\* Line 154: with self.__send_lock, after the wait has returned True.
sendN_Acquire(c) ==
    /\ pubPc[c] = "passed"
    /\ LockAvailable
    /\ send_lock' = c
    /\ pubPc' = [pubPc EXCEPT ![c] = "locked"]
    /\ UNCHANGED <<end, send_ready, send_exc, sendVars, send_channel, lockFrame>>

\* Lines 155-163: basic_publish on the stored channel; the lock is released
\* whether it returns or raises, and send() returns or raises.
sendN_Publish(c) ==
    /\ pubPc[c] = "locked"
    /\ send_lock' = 0
    /\ pubPc' = [pubPc EXCEPT ![c] = "idle"]
    /\ UNCHANGED <<end, send_ready, send_exc, sendVars, send_channel, lockFrame>>

sender ==
    \/ sender_Head
    \/ sender_Connect
    \/ sender_PollExit
    \/ sender_PollAcquire
    \/ sender_Drain
    \/ sender_Idle
    \/ sender_FinallyAcquire
    \/ sender_FinallyClear
    \/ sender_Close
    \/ sender_Backoff

sendN ==
    \E c \in Callers :
        \/ sendN_Call(c)
        \/ sendN_Timeout(c)
        \/ sendN_Acquire(c)
        \/ sendN_Publish(c)

LockNext ==
    \/ end_set
    \/ sender
    \/ sendN

LockSpec == LockInit /\ [][LockNext]_vars

\* The threads inside a section that writes to the send connection.
Publishing == {c \in Callers : pubPc[c] = "locked"}
SenderDraining == sendPc = "poll_locked"

\* C12: at most one thread at a time is inside a publish or inside the
\* sender's drain/heartbeat step, and that thread is the one holding the lock.
C12_PublishesSerialized ==
    /\ Cardinality(Publishing) + (IF SenderDraining THEN 1 ELSE 0) <= 1
    /\ \A c \in Publishing : send_lock = c
    /\ SenderDraining => send_lock = Sender

\* C12 witness: one caller is inside its publish while another caller and
\* the sender both wait for the lock.
C12_Witness ==
    /\ \E c, d \in Callers : pubPc[c] = "locked" /\ pubPc[d] = "passed"
    /\ sendPc = "poll_head"
    /\ ~end

\* C13: a publish is issued only while the readiness flag is set and the
\* connection of the stored channel is open.
C13_PublishOnlyWhileReady ==
    [][\A c \in Callers :
          (pubPc[c] = "locked" /\ pubPc'[c] = "idle") =>
              (send_ready /\ send_channel = "open")]_vars

(***************************************************************************)
(* Acknowledgments.  The receiver thread is followed statement by          *)
(* statement through its drain loop (lines 274-286) with its callback      *)
(* __recv_cb, for every prefetch count up to MaxPrefetch and every ack     *)
(* fraction ackNum / AckDen.  The broker delivers up to MaxMsgs messages   *)
(* on one connection, with delivery tags 1, 2, ... on its data channel;    *)
(* one call of drain_events dispatches at most one message.  The sender    *)
(* and the thread that called start() take no step here.                   *)
(***************************************************************************)

\* The state right after start() has started the receiver thread (line 107),
\* for every prefetch count and the given numerators of ackpc.
RecvInitFor(nums) ==
    /\ end = FALSE
    /\ send_ready = TRUE
    /\ recv_ready = FALSE
    /\ send_thread = TRUE
    /\ recv_thread = TRUE
    /\ send_exc = NoExc
    /\ recv_exc = NoExc
    /\ sendPc = "poll"
    /\ sendPending = "none"
    /\ recvPc = "head"
    /\ recvPending = "none"
    /\ callPc = "wr_enter"
    /\ callOp = "start"
    /\ timeout = "finite"
    /\ sig = FALSE
    /\ success = TRUE
    /\ senderSeen = TRUE
    /\ result = NoResult
    /\ cycle = 1
    /\ lifecycle = "new"
    /\ LockIdle
    /\ CbIdle
    /\ OtherIdle
    /\ MiscIdle
    /\ prefetch \in 1..MaxPrefetch
    /\ ackNum \in nums
    /\ unacked = 0
    /\ last_id = 0
    /\ tag = 0
    /\ acks = <<>>
    /\ wake = "none"

\* The configurations with a positive acknowledgment fraction.
RecvInit == RecvInitFor(1..AckDen)

\* What the steps of this specification leave alone.
recvFrame == <<send_ready, send_thread, recv_thread, sendVars, callVars, lockVars,
               prefetch, ackNum, kaVars, otherVars>>

\* Line 73 as int(self.__prefetch * self.__ackpc): the product rounded down.
BelowThresholdFloored(u) == u < (prefetch * ackNum) \div AckDen

\* Lines 73, 276: self.__unacked < self.__ack_threshold, the threshold being
\* the product self.__prefetch * self.__ackpc as it is.
BelowThreshold(u) == u * AckDen < prefetch * ackNum

\* Line 282 as "if True", and as "if False".
AckDueAlways == TRUE

AckDueNever == FALSE

\* Line 282: if self.__unacked.
AckDue == unacked > 0

\* Line 284 with the tag of the oldest unacknowledged message.
AckTagFirst == (last_id + 1) - unacked

\* Line 284: the delivery tag passed to basic_ack.
AckTag == last_id

\* Lines 279-280 with the try inside the inner loop: a poll timeout drains again.
AfterPollTimeoutRetry == "inner"

\* Lines 279-280: where a poll timeout continues.
AfterPollTimeout == "ack"

\* Line 259: the broker sends a message only while fewer than prefetch
\* messages of the channel are unacknowledged.
AckedUpTo == IF acks = <<>> THEN 0 ELSE acks[Len(acks)].tag
Deliverable == tag < MaxMsgs /\ tag - AckedUpTo < prefetch

\* Line 276: the inner loop's condition holds, so drain_events is called.
Draining == recvPc = "inner" /\ ~end /\ BelowThreshold(unacked)

\* Lines 244-246 without lines 245-246: the counters survive a reconnect.
receiver_HeadKeepsCounters ==
    /\ recvPc = "head"
    /\ recvPc' = IF end THEN "done" ELSE "connect"
    /\ UNCHANGED <<end, recv_ready, send_exc, recv_exc, recvPending, ackVars, recvFrame>>
    /\ UNCHANGED <<msgCb, dropped>>

\* Lines 244-246: the retry loop's condition; a new turn resets the counters,
\* whatever was still unacknowledged.
receiver_Head ==
    /\ recvPc = "head"
    /\ IF end
         THEN /\ recvPc' = "done"
              /\ UNCHANGED <<unacked, last_id, dropped>>
         ELSE /\ recvPc' = "connect"
              /\ unacked' = 0
              /\ last_id' = 0
              /\ dropped' = (dropped \/ unacked > 0)
    /\ UNCHANGED <<end, recv_ready, send_exc, recv_exc, recvPending, tag, acks, wake, recvFrame>>
    /\ UNCHANGED msgCb

\* Lines 250-269: clear readiness, connect, open the channels, set the
\* prefetch count and register both consumers, then clear the captured error
\* and raise readiness; or the attempt raises.
receiver_Connect ==
    /\ recvPc = "connect"
    /\ \/ /\ recv_exc' = NoExc
          /\ recv_ready' = TRUE
          /\ tag' = 0
          /\ acks' = <<>>
          /\ wake' = "none"
          /\ recvPc' = "drain_head"
          /\ UNCHANGED <<send_exc, recvPending>>
       \/ /\ recv_ready' = FALSE
          /\ \E kind \in RecvKinds : recv_run_Except(kind)
          /\ UNCHANGED <<tag, acks, wake>>
    /\ UNCHANGED <<end, unacked, last_id, recvFrame>>
    /\ UNCHANGED <<msgCb, dropped>>

\* Line 274: the drain loop's condition.
receiver_DrainHead ==
    /\ recvPc = "drain_head"
    /\ recvPc' = IF end THEN "finally" ELSE "inner"
    /\ UNCHANGED <<end, recv_ready, send_exc, recv_exc, recvPending, ackVars, recvFrame>>
    /\ UNCHANGED <<msgCb, dropped>>

\* Line 276: the inner loop's condition is false.
receiver_InnerExit ==
    /\ recvPc = "inner"
    /\ ~Draining
    /\ wake' = IF end THEN "end" ELSE "threshold"
    /\ recvPc' = "ack"
    /\ UNCHANGED <<end, recv_ready, send_exc, recv_exc, recvPending,
                   unacked, last_id, tag, acks, recvFrame>>
    /\ UNCHANGED <<msgCb, dropped>>

\* A user callback returns or raises.
CallbackOutcomes == {"returns", "raises"}

\* Lines 236-239 in an else clause: only a callback that returns is counted.
CountedOnReturn(outcome) == outcome = "returns"

\* Lines 236-239: the finally clause of __recv_cb runs either way.
Counted(outcome) == TRUE

\* Lines 223-227 inside the first try: no callback after a failed reply.
KaCallbackRunsAfterReply(reply) == reply = "ok"

\* Lines 224-227: the second try of __recv_ka_cb follows the first either way.
KaCallbackRuns(reply) == TRUE

\* Lines 278, 229-239: drain_events(.1) dispatches the next message to
\* __recv_cb, which records its delivery tag and counts it, whether the user
\* callback returns or raises.
recv_cb ==
    /\ Draining
    /\ Deliverable
    /\ tag' = tag + 1
    /\ \E outcome \in CallbackOutcomes :
          /\ msgCb' = outcome
          /\ IF Counted(outcome)
               THEN /\ last_id' = tag + 1
                    /\ unacked' = unacked + 1
               ELSE UNCHANGED <<last_id, unacked>>
    /\ UNCHANGED <<end, recv_ready, send_exc, recv_exc, recvVars, acks, wake, recvFrame>>
    /\ UNCHANGED dropped

\* Lines 216-223 of __recv_ka_cb, called by drain_events(.1) for a message of
\* the keepalive consumer: if the receiver is Ready the reply is published on
\* the keepalive channel, and a publish that raises is logged.
recv_ka_cb_Reply ==
    /\ Draining
    /\ kaSeen < MaxKa
    /\ kaSeen' = kaSeen + 1
    /\ kaReply' \in (IF recv_ready THEN {"ok", "failed"} ELSE {"skipped"})
    /\ recvPc' = "ka_cb"
    /\ UNCHANGED <<end, recv_ready, send_exc, recv_exc, recvPending, ackVars,
                   send_ready, send_thread, recv_thread, sendVars, callVars, lockVars,
                   msgCb, dropped, kaCalled, kaCb, otherVars>>

\* Lines 224-227 of __recv_ka_cb: the keepalive callback is called and what it
\* raises is logged; drain_events returns to the inner loop.
recv_ka_cb_Callback ==
    /\ recvPc = "ka_cb"
    /\ IF KaCallbackRuns(kaReply)
         THEN /\ kaCalled' = kaCalled + 1
              /\ kaCb' \in CallbackOutcomes
         ELSE UNCHANGED <<kaCalled, kaCb>>
    /\ recvPc' = "inner"
    /\ UNCHANGED <<end, recv_ready, send_exc, recv_exc, recvPending, ackVars,
                   send_ready, send_thread, recv_thread, sendVars, callVars, lockVars,
                   msgCb, dropped, kaSeen, kaReply, otherVars>>

\* Lines 278-280: drain_events(.1) raises SocketTimeout, nothing arrived.
drain_events_Timeout ==
    /\ Draining
    /\ wake' = "timeout"
    /\ recvPc' = AfterPollTimeout
    /\ UNCHANGED <<end, recv_ready, send_exc, recv_exc, recvPending,
                   unacked, last_id, tag, acks, recvFrame>>
    /\ UNCHANGED <<msgCb, dropped>>

\* Lines 282-285: the cumulative acknowledgment.
basic_ack ==
    /\ recvPc = "ack"
    /\ IF AckDue
         THEN /\ acks' = Append(acks, [tag |-> AckTag, multiple |-> TRUE,
                                       covers |-> unacked, by |-> wake])
              /\ unacked' = 0
         ELSE UNCHANGED <<acks, unacked>>
    /\ recvPc' = "tick"
    /\ UNCHANGED <<end, recv_ready, send_exc, recv_exc, recvPending,
                   last_id, tag, wake, recvFrame>>
    /\ UNCHANGED <<msgCb, dropped>>

\* Line 286: conn.heartbeat_tick().
heartbeat_tick ==
    /\ recvPc = "tick"
    /\ recvPc' = "drain_head"
    /\ UNCHANGED <<end, recv_ready, send_exc, recv_exc, recvPending, ackVars, recvFrame>>
    /\ UNCHANGED <<msgCb, dropped>>

\* Lines 278-286: a broker call of the drain loop raises; a SocketTimeout of
\* drain_events is the poll timeout above.
receiver_Raise ==
    /\ recvPc \in {"inner", "ack", "tick"}
    /\ recvPc = "inner" => Draining
    /\ \E kind \in RecvKinds :
          /\ recvPc = "inner" => kind # "SocketTimeout"
          /\ recvPending' = kind
    /\ recvPc' = "finally"
    /\ UNCHANGED <<end, recv_ready, send_exc, recv_exc, ackVars, recvFrame>>
    /\ UNCHANGED <<msgCb, dropped>>

\* Lines 287-322: finally: self.__recv_ready.clear(), cancel both consumers; the
\* connection closes; then the loop head or the matching except clause.
receiver_Finally ==
    /\ recvPc = "finally"
    /\ recv_ready' = FALSE
    /\ IF recvPending = "none"
         THEN /\ recvPc' = "head"
              /\ UNCHANGED <<send_exc, recv_exc, recvPending>>
         ELSE recv_run_Except(recvPending)
    /\ UNCHANGED <<end, ackVars, recvFrame>>
    /\ UNCHANGED <<msgCb, dropped>>

\* Lines 301-317: self.__end.wait(2) returns.
receiver_Backoff ==
    /\ recvPc = "backoff"
    /\ recvPc' = "head"
    /\ UNCHANGED <<end, recv_ready, send_exc, recv_exc, recvPending, ackVars, recvFrame>>
    /\ UNCHANGED <<msgCb, dropped>>

\* The steps the receiver takes when no broker call fails.
receiver_Scheduled ==
    \/ receiver_Head
    \/ receiver_Connect
    \/ receiver_DrainHead
    \/ receiver_InnerExit
    \/ recv_cb
    \/ drain_events_Timeout
    \/ basic_ack
    \/ heartbeat_tick
    \/ receiver_Finally
    \/ receiver_Backoff

RecvNext ==
    \/ end_set
    \/ receiver_Scheduled
    \/ receiver_Raise

RecvSpec == RecvInit /\ [][RecvNext]_vars

\* The receiver thread keeps running: a drain_events call returns, with a
\* message or with a timeout, and every other statement completes.
FairRecvSpec == RecvSpec /\ WF_vars(receiver_Scheduled)

\* The threshold as a number of messages: the product rounded down, and the
\* smallest whole number that is not below the product.
ThresholdWhole == (prefetch * ackNum) % AckDen = 0
FloorThreshold == (prefetch * ackNum) \div AckDen
CeilThreshold == (prefetch * ackNum + AckDen - 1) \div AckDen

\* The receiver is inside "with Connection" with both consumers registered.
Consuming == recvPc \in {"drain_head", "inner", "ack", "tick"}

RECURSIVE Covered(_)
\* How many messages a sequence of acknowledgments covers.
Covered(log) == IF log = <<>> THEN 0 ELSE log[1].covers + Covered(Tail(log))

\* A step that issues an acknowledgment.
AckIssued == acks' # acks /\ acks' # <<>>

\* C16: every acknowledgment the receiver issues is cumulative, is issued
\* only when the unacked count is greater than 0, carries the delivery tag of
\* the most recently dispatched message of the current connection and resets
\* the unacked count to 0; successive tags on one connection grow strictly.
C16_AcksCumulativeToLastTag ==
    [][AckIssued =>
         /\ acks' = Append(acks, acks'[Len(acks')])
         /\ acks'[Len(acks')].multiple
         /\ unacked > 0
         /\ acks'[Len(acks')].tag = last_id
         /\ last_id = tag
         /\ tag > 0
         /\ unacked' = 0
         /\ acks # <<>> => acks'[Len(acks')].tag > acks[Len(acks)].tag]_vars

\* C16 witness: a second acknowledgment has been issued on one connection,
\* the first after a poll timeout, the second at the threshold.
C16_Witness ==
    /\ Len(acks) = 2
    /\ acks[1].by = "timeout"
    /\ acks[2].by = "threshold"
    /\ acks[2].covers >= 2
    /\ recvPc = "tick"

\* C17 as stated: the receiver stops draining as soon as the unacked count
\* reaches floor(prefetch x ack-fraction).
C17_StopsDrainingAtFloor ==
    (recvPc = "inner" /\ ~end) => (Draining <=> unacked < FloorThreshold)

\* C17 amended: the receiver drains while the unacked count is below the
\* product itself, so it stops and acknowledges when the count reaches the
\* smallest whole number that is not below the product; an acknowledgment
\* triggered by the threshold covers that many messages, and the count never
\* exceeds it.
C17_StopsDrainingAtCeiling ==
    /\ (recvPc = "inner" /\ ~end) => (Draining <=> unacked < CeilThreshold)
    /\ unacked <= CeilThreshold
    /\ \A i \in 1..Len(acks) : acks[i].by = "threshold" => acks[i].covers = CeilThreshold
    /\ (recvPc = "ack" /\ wake = "threshold") => unacked = CeilThreshold

\* C17 witness: with a product that is not a whole number, an acknowledgment
\* triggered by the threshold covers one message more than the rounded-down
\* product.
C17_Witness ==
    /\ ~ThresholdWhole
    /\ FloorThreshold >= 1
    /\ acks # <<>>
    /\ acks[Len(acks)].by = "threshold"
    /\ acks[Len(acks)].covers = FloorThreshold + 1

\* C18 as stated: for N messages delivered on one connection the receiver
\* has issued at most ceil(N / threshold) acknowledgments.
C18_AtMostCeilingOfNOverThreshold ==
    acks # <<>> => (Len(acks) - 1) * (prefetch * ackNum) < tag * AckDen

\* C18 amended: the receiver has issued at most N acknowledgments, each
\* covering at least one message and together covering the messages no longer
\* counted as unacked; those triggered by the threshold are at most
\* floor(N / ceil(threshold)); and ceil(N / threshold) bounds the number when
\* no acknowledgment was triggered by a poll timeout or by shutdown.
C18_AckCountBounds ==
    /\ Consuming =>
         /\ Len(acks) <= tag
         /\ Covered(acks) + unacked = tag
    /\ \A i \in 1..Len(acks) : acks[i].covers >= 1
    /\ Cardinality({i \in 1..Len(acks) : acks[i].by = "threshold"}) * CeilThreshold <= tag
    /\ (acks # <<>> /\ \A i \in 1..Len(acks) : acks[i].by = "threshold") =>
           (Len(acks) - 1) * (prefetch * ackNum) < tag * AckDen

\* C18 witness: three messages separated by pauses have been acknowledged one
\* by one although the threshold is at least two messages.
C18_Witness ==
    /\ tag = 3
    /\ Len(acks) = 3
    /\ CeilThreshold >= 2
    /\ ThresholdWhole
    /\ unacked = 0

\* C19: for a whole-number threshold T, an acknowledgment triggered by the
\* threshold covers exactly the T messages dispatched since the previous
\* acknowledgment and is issued without a further drain; a poll timeout
\* after k < T messages leads to exactly one acknowledgment, covering those k.
C19_ThresholdBoundary ==
    /\ [](ThresholdWhole =>
            /\ (recvPc = "inner" /\ ~end /\ unacked = FloorThreshold) => ~Draining
            /\ (recvPc = "inner" /\ ~end /\ unacked < FloorThreshold) => Draining
            /\ \A i \in 1..Len(acks) :
                  /\ acks[i].by = "threshold" => acks[i].covers = FloorThreshold
                  /\ acks[i].by = "timeout" =>
                        (acks[i].covers >= 1 /\ acks[i].covers < FloorThreshold)
                  /\ acks[i].tag = Covered(SubSeq(acks, 1, i)))
    /\ [][drain_events_Timeout => recvPc' = "ack"]_vars
    /\ [][(recvPc = "ack" /\ recvPc' = "tick" /\ unacked > 0) =>
            /\ acks' = Append(acks, [tag |-> tag, multiple |-> TRUE,
                                     covers |-> unacked, by |-> wake])
            /\ unacked' = 0]_vars
    /\ [][(recvPc = "ack" /\ recvPc' = "tick" /\ unacked = 0) => acks' = acks]_vars

\* C19 witness: with a whole-number threshold T >= 2, T messages back to
\* back were acknowledged once, then a single message followed by a pause
\* was acknowledged once.
C19_Witness ==
    /\ ThresholdWhole
    /\ FloorThreshold >= 2
    /\ Len(acks) = 2
    /\ acks[1] = [tag |-> FloorThreshold, multiple |-> TRUE,
                  covers |-> FloorThreshold, by |-> "threshold"]
    /\ acks[2] = [tag |-> FloorThreshold + 1, multiple |-> TRUE,
                  covers |-> 1, by |-> "timeout"]
    /\ recvPc = "inner"

\* C20: while the receiver stays connected, dispatched messages that are not
\* yet acknowledged lead to a cumulative acknowledgment that covers everything
\* dispatched so far, with the unacked count back at 0, unless a broker call
\* fails; and the drain loop is never left with messages unacknowledged.
C20_Quiescence ==
    /\ (Consuming /\ unacked > 0)
          ~> ((unacked = 0 /\ AckedUpTo = tag) \/ recvPending # "none")
    /\ [](recvPc \in {"tick", "drain_head"} => (unacked = 0 /\ AckedUpTo = tag))
    /\ []((recvPc = "finally" /\ recvPending = "none") => (unacked = 0 /\ AckedUpTo = tag))

\* C20 witness: a lone message was dispatched, no further message arrived,
\* and after the poll timeout it has been acknowledged.
C20_Witness ==
    /\ tag = 1
    /\ acks = <<[tag |-> 1, multiple |-> TRUE, covers |-> 1, by |-> "timeout"]>>
    /\ unacked = 0
    /\ CeilThreshold >= 2
    /\ recvPc = "inner"
    /\ ~end

(***************************************************************************)
(* Keepalives.  The receiver of the acknowledgment model, configured with  *)
(* the defaults in proportion, also gets up to MaxKa messages of its       *)
(* keepalive consumer.                                                     *)
(***************************************************************************)
KaInit ==
    /\ RecvInit
    /\ prefetch = MaxPrefetch
    /\ ackNum = 1

recv_ka_cb ==
    \/ recv_ka_cb_Reply
    \/ recv_ka_cb_Callback

KaNext ==
    \/ RecvNext
    \/ recv_ka_cb

KaSpec == KaInit /\ [][KaNext]_vars

\* C21: a message dispatched to the receiver, whether its callback returns
\* or raises, leaves the receiver in its drain loop with the unacked count
\* one higher and the last delivery tag equal to the message's tag; the next
\* acknowledgment carries a tag that is not smaller, so it covers the message.
C21_CallbackOutcomeDoesNotMatter ==
    /\ [][tag' = tag + 1 =>
            /\ msgCb' \in CallbackOutcomes
            /\ unacked' = unacked + 1
            /\ last_id' = tag'
            /\ recvPc' = "inner" /\ recvPc = "inner"
            /\ recvPending' = "none"
            /\ UNCHANGED <<recv_ready, recv_exc, send_exc, acks>>]_vars
    /\ [][AckIssued => acks'[Len(acks')].tag = tag]_vars
    /\ [](Consuming => (unacked = 0 <=> AckedUpTo = tag))

\* C21 witness: the callback raised for the second message of a connection
\* and the acknowledgment that followed covers both messages.
C21_Witness ==
    /\ msgCb = "raises"
    /\ tag = 2
    /\ acks = <<[tag |-> 2, multiple |-> TRUE, covers |-> 2, by |-> "threshold"]>>
    /\ recvPc = "tick"

\* A step that enters, and one that leaves, __recv_ka_cb.
KaEntered == recvPc # "ka_cb" /\ recvPc' = "ka_cb"
KaLeft == recvPc = "ka_cb" /\ recvPc' # "ka_cb"

\* C22: for every keepalive message the reply publish is attempted, then the
\* keepalive callback is called exactly once, also after a failed reply;
\* whatever fails, the receiver is back in its drain loop with the unacked
\* count, the last delivery tag, its readiness and the captured errors as
\* they were.
C22_KeepaliveFailuresContained ==
    /\ [][KaEntered =>
            /\ recvPc = "inner"
            /\ kaSeen' = kaSeen + 1
            /\ kaReply' \in {"ok", "failed"}
            /\ kaCalled' = kaCalled]_vars
    /\ [][KaLeft =>
            /\ recvPc' = "inner"
            /\ kaCalled' = kaCalled + 1
            /\ kaCb' \in CallbackOutcomes
            /\ UNCHANGED <<kaSeen, kaReply>>]_vars
    /\ [][(KaEntered \/ KaLeft) =>
            UNCHANGED <<unacked, last_id, tag, acks, recv_ready, recv_exc, send_exc,
                        recvPending, end>>]_vars
    /\ [](kaSeen = IF recvPc = "ka_cb" THEN kaCalled + 1 ELSE kaCalled)
    /\ [](recvPc = "ka_cb" => (recv_ready /\ recvPending = "none"))

\* C22 witness: the reply to the second keepalive failed and the keepalive
\* callback, called for the second time, raised, with a message unacknowledged;
\* the receiver is draining again.
C22_Witness ==
    /\ kaSeen = 2
    /\ kaCalled = 2
    /\ kaReply = "failed"
    /\ kaCb = "raises"
    /\ unacked = 1
    /\ Draining

\* C23: every connect cycle of the receiver begins with the unacked count 0
\* and no last delivery tag, and an acknowledgment carries a tag of, and
\* counts only messages of, the connection it is issued on.
C23_NoTrackingAcrossReconnect ==
    /\ [](recvPc = "connect" => (unacked = 0 /\ last_id = 0))
    /\ [](Consuming => (unacked <= tag /\ last_id <= tag /\ (unacked > 0 => last_id = tag)))
    /\ [][AckIssued =>
            /\ acks'[Len(acks')].tag >= 1
            /\ acks'[Len(acks')].tag <= tag
            /\ acks'[Len(acks')].covers + AckedUpTo = acks'[Len(acks')].tag]_vars

\* C23 witness: messages were still unacknowledged when a connection was lost,
\* and on a later connection the first message has been acknowledged alone.
C23_Witness ==
    /\ dropped
    /\ tag = 1
    /\ acks = <<[tag |-> 1, multiple |-> TRUE, covers |-> 1, by |-> "timeout"]>>
    /\ recvPc = "tick"

(***************************************************************************)
(* IoticAgent/Core/RequestEvent.py: the handle of a request that is        *)
(* awaiting its outcome.  Threads call wait() and is_set() on it; the      *)
(* receive path of the core client (Core/Client.py) fulfils it: it stores  *)
(* success, payload or exception and then calls _set().  Time is a clock   *)
(* that ticks; a tick cannot pass the deadline of a thread in Event.wait.  *)
(***************************************************************************)
\* The outcomes a request is fulfilled with: it succeeded, it failed, or an
\* exception object was captured for it.
Outcomes == {"True", "False"} \cup ExcObjs

\* The timeout argument of wait(): None, or a number of clock ticks, of
\* which the callers pass 0 and the longest.
NoTimeout == [timed |-> FALSE, ticks |-> 0]
WaitTimeouts == {NoTimeout} \cup [timed : {TRUE}, ticks : {0, MaxTimeout}]

\* A _set() that leaves the event as it was.
EventAfterSetUnset(r) == evSet[r]

\* Lines 62-64: _set() sets the event.
EventAfterSet(r) == TRUE

\* An Event.wait that gives up one tick before its timeout.
EventWaitEarly(r, to, elapsed) ==
    IF evSet[r] THEN "True"
    ELSE IF to.timed /\ elapsed + 1 >= to.ticks THEN "False"
    ELSE "blocked"

\* threading.Event.wait(timeout) as called on line 75: True as soon as the
\* event is set, False once the timeout has elapsed with the event unset,
\* and blocked otherwise.
EventWait(r, to, elapsed) ==
    IF evSet[r] THEN "True"
    ELSE IF to.timed /\ elapsed >= to.ticks THEN "False"
    ELSE "blocked"

\* Lines 75-78: wait() raises the stored exception or returns True when
\* Event.wait returned True, and returns False otherwise.
wait_Outcome(r, to, elapsed) ==
    LET flag == EventWait(r, to, elapsed)
    IN  IF flag = "True"
        THEN IF reqExc[r] # "none" THEN reqExc[r] ELSE "True"
        ELSE flag

\* An is_set() that never raises.
is_set_OutcomeNoRaise(r) == IF evSet[r] THEN "True" ELSE "False"

\* Lines 57-60: is_set() raises the stored exception or returns True when
\* the event is set, and returns False otherwise.
is_set_Outcome(r) ==
    IF evSet[r]
    THEN IF reqExc[r] # "none" THEN reqExc[r] ELSE "True"
    ELSE "False"

amqpVars == <<linkVars, sendVars, recvVars, callVars, lockVars, ackVars, cbVars>>

\* Line 66: a thread calls wait(timeout) on request r.
wait_Call(t, r, to) ==
    /\ waiter[t].pc = "idle"
    /\ waiter' = [waiter EXCEPT ![t] = [pc |-> "waiting", op |-> "wait", req |-> r,
                                        timeout |-> to, elapsed |-> 0, out |-> "none"]]
    /\ UNCHANGED <<evSet, reqSuccess, reqExc, fulfils, amqpVars, thingVars, runnerVars, miscVars>>

\* Lines 75-78: Event.wait returns and wait() ends by returning or raising;
\* of the call that ended only the outcome is remembered.
wait_Return(t) ==
    /\ waiter[t].pc = "waiting"
    /\ LET out == wait_Outcome(waiter[t].req, waiter[t].timeout, waiter[t].elapsed)
       IN  /\ out # "blocked"
           /\ waiter' = [waiter EXCEPT ![t] = [NotCalled EXCEPT !.op = "wait", !.out = out]]
    /\ UNCHANGED <<evSet, reqSuccess, reqExc, fulfils, amqpVars, thingVars, runnerVars, miscVars>>

\* Lines 49-60: a thread calls is_set() on request r; the call does not block.
is_set(t, r) ==
    /\ waiter[t].pc = "idle"
    /\ waiter' = [waiter EXCEPT ![t] = [pc |-> "idle", op |-> "is_set", req |-> r,
                                        timeout |-> NoTimeout, elapsed |-> 0,
                                        out |-> is_set_Outcome(r)]]
    /\ UNCHANGED <<evSet, reqSuccess, reqExc, fulfils, amqpVars, thingVars, runnerVars, miscVars>>

\* The threads in Event.wait with a timeout.
TimedWaiters == {t \in Waiters : waiter[t].pc = "waiting" /\ waiter[t].timeout.timed}

\* The clock ticks: time passes for every thread in Event.wait with a
\* timeout.  A thread whose Event.wait can return, because the event is set
\* or its deadline is reached, returns before the next tick.
Tick ==
    /\ TimedWaiters # {}
    /\ \A t \in Waiters :
          waiter[t].pc = "waiting" =>
              wait_Outcome(waiter[t].req, waiter[t].timeout, waiter[t].elapsed) = "blocked"
    /\ waiter' = [t \in Waiters |->
                    IF t \in TimedWaiters
                    THEN [waiter[t] EXCEPT !.elapsed = waiter[t].elapsed + 1]
                    ELSE waiter[t]]
    /\ UNCHANGED <<evSet, reqSuccess, reqExc, fulfils, amqpVars, thingVars, runnerVars, miscVars>>

\* Lines 41-46 and 62-64: the fields of request r are assigned the outcome
\* and _set() is called.
Store(r, outcome) ==
    /\ reqSuccess' = [reqSuccess EXCEPT ![r] = IF outcome \in ExcObjs THEN reqSuccess[r]
                                                ELSE outcome]
    /\ reqExc' = [reqExc EXCEPT ![r] = IF outcome \in ExcObjs THEN outcome ELSE reqExc[r]]
    /\ evSet' = [evSet EXCEPT ![r] = EventAfterSet(r)]
    /\ fulfils' = [fulfils EXCEPT ![r] = fulfils[r] + 1]
    /\ UNCHANGED <<waiter, amqpVars, thingVars, runnerVars, miscVars>>

\* The receive path fulfils the pending request r.
fulfil(r) ==
    /\ fulfils[r] = 0
    /\ \E outcome \in Outcomes : Store(r, outcome)

\* A further fulfilment of the finished request r.
refulfil(r) ==
    /\ fulfils[r] >= 1
    /\ fulfils[r] < MaxFulfils
    /\ \E outcome \in Outcomes : Store(r, outcome)

\* Threads that block in wait() on requests that are fulfilled once.
WaitNext ==
    \/ \E t \in Waiters, r \in Reqs, to \in WaitTimeouts : wait_Call(t, r, to)
    \/ \E t \in Waiters : wait_Return(t)
    \/ Tick
    \/ \E r \in Reqs : fulfil(r)

\* The same, with threads that also poll with is_set().
ReqNext ==
    \/ WaitNext
    \/ \E t \in Waiters, r \in Reqs : is_set(t, r)

ReqSpec == Init /\ [][ReqNext]_vars

\* A thread in wait() is scheduled when it can return.
FairWaitSpec == Init /\ [][WaitNext]_vars /\ \A t \in Waiters : WF_vars(wait_Return(t))

\* Requests that are fulfilled again after they were finished.
RefulfilNext == ReqNext \/ \E r \in Reqs : refulfil(r)
RefulfilSpec == Init /\ [][RefulfilNext]_vars

\* A step in which thread t returns from, or raises out of, wait().
WaitReturned(t) == waiter[t].pc = "waiting" /\ waiter'[t].pc = "idle"

\* A step in which thread t calls is_set(), which ends at once.
IsSetCalled(t) == waiter[t].pc = "idle" /\ waiter'[t].pc = "idle" /\ waiter'[t] # waiter[t]

\* C24: wait(timeout) ends with True (or, for a request finished with a
\* captured exception, by raising it) if and only if the request had been
\* marked finished by then; it returns False only on a request not finished
\* and only once the full timeout has elapsed; wait(None) on a request that
\* is not finished cannot return.
C24_WaitTrueIffFinishedInTime ==
    /\ [][\A t \in Waiters : WaitReturned(t) =>
            /\ (waiter'[t].out # "False") <=> evSet[waiter[t].req]
            /\ (waiter'[t].out = "True") => (evSet[waiter[t].req] /\ fulfils[waiter[t].req] >= 1)
            /\ (waiter'[t].out = "False") =>
                  /\ fulfils[waiter[t].req] = 0
                  /\ waiter[t].timeout.timed
                  /\ waiter[t].elapsed = waiter[t].timeout.ticks]_vars
    /\ [](\A t \in Waiters :
            (/\ waiter[t].pc = "waiting"
             /\ ~evSet[waiter[t].req]
             /\ (~waiter[t].timeout.timed \/ waiter[t].elapsed < waiter[t].timeout.ticks))
            => ~ENABLED wait_Return(t))

\* C24 witness: one thread's wait has returned False and the other thread's
\* wait has returned True, with one request still pending and the other
\* finished.
C24_Witness ==
    /\ waiter[1].op = "wait" /\ waiter[1].pc = "idle" /\ waiter[1].out = "False"
    /\ waiter[2].op = "wait" /\ waiter[2].pc = "idle" /\ waiter[2].out = "True"
    /\ ~evSet["r1"] /\ evSet["r2"]

\* C25: on a request finished with a captured exception every call of wait()
\* and of is_set() that ends raises the stored exception object, which stays
\* the same object from the fulfilment on; on a pending request a call that
\* ends returns False; and is_set() gives in every state the outcome of
\* wait(0).
C25_IdempotentReraise ==
    /\ [][\A t \in Waiters : WaitReturned(t) =>
            /\ (evSet[waiter[t].req] /\ reqExc[waiter[t].req] # "none")
                  => waiter'[t].out = reqExc[waiter[t].req]
            /\ ~evSet[waiter[t].req] => waiter'[t].out = "False"]_vars
    /\ [][\A t \in Waiters : IsSetCalled(t) =>
            /\ (evSet[waiter'[t].req] /\ reqExc[waiter'[t].req] # "none")
                  => waiter'[t].out = reqExc[waiter'[t].req]
            /\ ~evSet[waiter'[t].req] => waiter'[t].out = "False"]_vars
    /\ [][\A r \in Reqs : evSet[r] => (evSet'[r] /\ reqExc'[r] = reqExc[r])]_vars
    /\ [](\A r \in Reqs : ~evSet[r] => reqExc[r] = "none")
    /\ [](\A r \in Reqs : is_set_Outcome(r) = wait_Outcome(r, [timed |-> TRUE, ticks |-> 0], 0))

\* C25 witness: request r1 was finished with the exception object e2; a wait()
\* of one thread and an is_set() of the other have both raised e2, while r2 is
\* pending.
C25_Witness ==
    /\ reqExc["r1"] = "e2" /\ evSet["r1"] /\ ~evSet["r2"]
    /\ waiter[1] = [NotCalled EXCEPT !.op = "wait", !.out = "e2"]
    /\ waiter[2] = [pc |-> "idle", op |-> "is_set", req |-> "r1", timeout |-> NoTimeout,
                    elapsed |-> 0, out |-> "e2"]

\* C26: once a request is finished, no step changes its event, its success
\* or its exception, so that the outcome observed after wait() returned
\* stays the outcome of every later call.
C26_OutcomeNeverChanges ==
    [][\A r \in Reqs : evSet[r] =>
            /\ evSet'[r]
            /\ reqSuccess'[r] = reqSuccess[r]
            /\ reqExc'[r] = reqExc[r]]_vars

\* A thread is blocked in wait() on a request that has been fulfilled.
BlockedOnFulfilled(t) == waiter[t].pc = "waiting" /\ fulfils[waiter[t].req] >= 1

\* C27: no thread stays in wait() on a request that has been fulfilled,
\* whatever its timeout, and it leaves the call with True or by raising the
\* captured exception; the fulfilment of one request sets its event,
\* changes nothing of the other requests and returns no waiter.
C27_FulfilmentWakesEveryWaiter ==
    /\ \A t \in Waiters : []<>(~BlockedOnFulfilled(t))
    /\ [][\A t \in Waiters : (BlockedOnFulfilled(t) /\ ~BlockedOnFulfilled(t)') =>
            /\ waiter'[t].pc = "idle"
            /\ waiter'[t].out \in ({"True"} \cup ExcObjs)]_vars
    /\ [][\A r \in Reqs : fulfils'[r] # fulfils[r] =>
            /\ evSet'[r]
            /\ waiter' = waiter
            /\ \A q \in Reqs \ {r} :
                  /\ evSet'[q] = evSet[q]
                  /\ reqSuccess'[q] = reqSuccess[q]
                  /\ reqExc'[q] = reqExc[q]
                  /\ fulfils'[q] = fulfils[q]]_vars

\* C27 witness: request r1 has just been fulfilled while one thread is blocked
\* on it in wait(None) and the other in a wait with a timeout that has not
\* elapsed; r2 is pending.
C27_Witness ==
    /\ fulfils["r1"] = 1 /\ evSet["r1"]
    /\ fulfils["r2"] = 0 /\ ~evSet["r2"]
    /\ waiter[1].pc = "waiting" /\ waiter[1].req = "r1" /\ ~waiter[1].timeout.timed
    /\ waiter[2].pc = "waiting" /\ waiter[2].req = "r1" /\ waiter[2].timeout.timed
    /\ waiter[2].elapsed < waiter[2].timeout.ticks

(***************************************************************************)
(* IoticAgent/IOT/Client.py: creation of Things with one local id (lid) by *)
(* several threads.  The core client (Core/Client.py) sends the create     *)
(* request and, when the infrastructure answers, calls the creation        *)
(* callback and finishes the request; the callback is taken to run before  *)
(* the request is finished, which is the order that favours create_thing.  *)
(***************************************************************************)
notThingVars == <<amqpVars, reqVars, runnerVars, miscVars>>

\* A create request can be sent by a thread that has none under way.
CanRequest(c) == thPc[c] = "idle" /\ crReq[c] \in {"none", "ok", "failed"}

\* Lines 503-507, 529-530: self.__new_things.pop(lid) finds a Thing.
Cached == new_things # 0

\* Line 505 reading the entry without removing it.
CacheAfterPopKept == new_things

\* Line 505: pop removes the entry.
CacheAfterPop == 0

\* Lines 524-526: create_thing sends the create request and waits for it.
create_thing_Call(c) ==
    /\ CanRequest(c)
    /\ crReq' = [crReq EXCEPT ![c] = "sent"]
    /\ thPc' = [thPc EXCEPT ![c] = "wait"]
    /\ thOp' = [thOp EXCEPT ![c] = "create_thing"]
    /\ thOut' = [thOut EXCEPT ![c] = "none"]
    /\ UNCHANGED <<new_things, notThingVars, private_things, gets, gotThing>>

\* Lines 534-536: create_thing_async sends the create request and returns
\* its event.
create_thing_async(c) ==
    /\ CanRequest(c)
    /\ crReq' = [crReq EXCEPT ![c] = "sent"]
    /\ thOp' = [thOp EXCEPT ![c] = "create_thing_async"]
    /\ thOut' = [thOut EXCEPT ![c] = "evt"]
    /\ UNCHANGED <<new_things, thPc, notThingVars, private_things, gets, gotThing>>

\* Lines 754-771, 787-788: the creation (or duplication) callback for the
\* request of thread c stores the Thing under its lid.
cb_created(c) ==
    /\ crReq[c] = "sent"
    /\ new_things' = c
    /\ private_things' = c
    /\ gets' = 0
    /\ crReq' = [crReq EXCEPT ![c] = "stored"]
    /\ UNCHANGED <<thPc, thOp, thOut, gotThing, notThingVars>>

\* The request of thread c is finished with success after its callback.
request_Succeeds(c) ==
    /\ crReq[c] = "stored"
    /\ crReq' = [crReq EXCEPT ![c] = "ok"]
    /\ UNCHANGED <<new_things, thPc, thOp, thOut, notThingVars, private_things, gets, gotThing>>

\* The request of thread c is finished without success; no callback runs.
request_Fails(c) ==
    /\ crReq[c] = "sent"
    /\ crReq' = [crReq EXCEPT ![c] = "failed"]
    /\ UNCHANGED <<new_things, thPc, thOp, thOut, notThingVars, private_things, gets, gotThing>>

\* Lines 526-527 and 445-465: the wait returns, at the latest after the sync
\* timeout, and _except_if_failed raises IOTSyncTimeout when the request is
\* not finished and an IOTException when it failed.
create_thing_Check(c) ==
    /\ thPc[c] = "wait"
    /\ IF crReq[c] = "ok"
       THEN /\ thPc' = [thPc EXCEPT ![c] = "pop"]
            /\ UNCHANGED thOut
       ELSE /\ thPc' = [thPc EXCEPT ![c] = "idle"]
            /\ thOut' = [thOut EXCEPT ![c] = IF crReq[c] = "failed" THEN "IOTException"
                                              ELSE "IOTSyncTimeout"]
    /\ UNCHANGED <<new_things, crReq, thOp, notThingVars, private_things, gets, gotThing>>

\* Lines 528-532: create_thing pops the Thing of its lid, and raises
\* IOTClientError when there is none.
create_thing_Pop(c) ==
    /\ thPc[c] = "pop"
    /\ thPc' = [thPc EXCEPT ![c] = "idle"]
    /\ thOut' = [thOut EXCEPT ![c] = IF Cached THEN "Thing" ELSE "IOTClientError"]
    /\ new_things' = 0
    /\ UNCHANGED <<crReq, thOp, notThingVars, private_things, gets, gotThing>>

\* Lines 492-507: get_thing pops the Thing of its lid, and raises KeyError
\* when there is none.
get_thing(c) ==
    /\ thPc[c] = "idle"
    /\ thOp' = [thOp EXCEPT ![c] = "get_thing"]
    /\ thOut' = [thOut EXCEPT ![c] = IF Cached THEN "Thing" ELSE "KeyError"]
    /\ new_things' = CacheAfterPop
    /\ gets' = IF Cached /\ gets < 2 THEN gets + 1 ELSE gets
    /\ gotThing' = IF Cached THEN new_things ELSE gotThing
    /\ UNCHANGED <<crReq, thPc, private_things, notThingVars>>

ThingNext ==
    \/ \E c \in Clients : create_thing_Call(c)
    \/ \E c \in Clients : create_thing_async(c)
    \/ \E c \in Clients : cb_created(c)
    \/ \E c \in Clients : request_Succeeds(c)
    \/ \E c \in Clients : request_Fails(c)
    \/ \E c \in Clients : create_thing_Check(c)
    \/ \E c \in Clients : create_thing_Pop(c)
    \/ \E c \in Clients : get_thing(c)

ThingSpec == Init /\ [][ThingNext]_vars

\* C28: a create_thing whose request was finished with success ends by
\* returning a Thing, whatever the other threads do with the same lid.
C28_CreateReturnsThingAfterSuccess ==
    [][\A c \in Clients :
          (thPc[c] = "pop" /\ thPc'[c] = "idle") => thOut'[c] = "Thing"]_vars

(***************************************************************************)
(* IoticAgent/IOT/Client.py, stop(): the application stops the connection  *)
(* through the IOT client, which asks the core client whether it is alive  *)
(* before it stops it.  Core/Client.py is not among the sources; its       *)
(* is_alive() and stop() are taken to be those of its AmqpLink.            *)
(***************************************************************************)
\* Lines 185-186: the core client is alive and is stopped.
Client_stop_Alive ==
    /\ callPc = "idle"
    /\ IsAlive
    /\ stop_SetEnd

\* Line 185: the core client is not alive; stop() returns.
Client_stop_NotAlive ==
    /\ callPc = "idle"
    /\ ~IsAlive
    /\ result' = Returned("Client.stop", "none", NoExc)
    /\ UNCHANGED <<linkVars, sendVars, recvVars,
                   callPc, callOp, timeout, sig, success, senderSeen, cycle, lifecycle>>
    /\ UNCHANGED <<lockVars, ackVars, cbVars, otherVars>>

\* AmqpLink.stop() past its first statement, and as start() calls it.
stop_Rest ==
    \/ callPc = "stop_end" /\ stop_SetEnd
    \/ stop_JoinRecv
    \/ stop_JoinSend

Client_stop ==
    \/ Client_stop_Alive
    \/ Client_stop_NotAlive
    \/ stop_Rest

ClientNext ==
    \/ start
    \/ Client_stop
    \/ send
    \/ is_alive
    \/ send_run
    \/ recv_run

ClientSpec == Init /\ [][ClientNext]_vars

\* C29: when Client.stop() has returned without stopping the core client,
\* no session thread of the link is running.
C29_StopStopsStartedClient ==
    (callPc = "idle" /\ result.op = "Client.stop")
        => (~SendThreadAlive /\ ~RecvThreadAlive)

(***************************************************************************)
(* IoticAgent/ThingRunner.py: each call of run() begins a run cycle that   *)
(* one thread executes (__run: the thread that called run() in the         *)
(* foreground, or a background thread), and a controlling thread calls     *)
(* run(background=True), stop(), shutdown_requested and                    *)
(* wait_for_shutdown().  The runner's IOT client is started, not alive     *)
(* (started, with a session of its link in backoff) or stopped.            *)
(***************************************************************************)
notRunnerVars == <<amqpVars, reqVars, thingVars, miscVars>>

\* The run cycles, numbered by the call of run() that began them.
Cycles == 1..MaxRuns

\* The result of the controlling thread's last call.
Seen(op, value) == [op |-> op, value |-> value]

\* The cycles whose __run is being executed.
Running == {k \in Cycles : runPc[k] \notin {"none", "done"}}

\* The cycle of the thread that self.__bgthread refers to: the last one
\* started in the background.
BgCycle == CHOOSE k \in Cycles : runMode[k] = "bg" /\ \A j \in Cycles : (j > k => runMode[j] # "bg")

\* Line 87: self.__shutdown.set().
ShutdownAfterStop == TRUE

\* Line 60: self.__shutdown.clear().
ShutdownAfterRun == FALSE

\* Lines 58-64: run(background=True) clears the shutdown Event and starts the
\* background thread.
run_Background ==
    /\ stopPc = "idle"
    /\ ~bgthread
    /\ runs < MaxRuns
    /\ shutdown' = ShutdownAfterRun
    /\ bgthread' = TRUE
    /\ runs' = runs + 1
    /\ runPc' = [runPc EXCEPT ![runs + 1] = "enter"]
    /\ runMode' = [runMode EXCEPT ![runs + 1] = "bg"]
    /\ seen' = Seen("run", TRUE)
    /\ UNCHANGED <<runExc, onShut, askedStop, rclient, stopPc, notRunnerVars>>

\* Lines 58-60, 66: run() clears the shutdown Event and executes __run in
\* the calling thread.
run_Foreground ==
    /\ ~bgthread
    /\ runs < MaxRuns
    /\ shutdown' = ShutdownAfterRun
    /\ runs' = runs + 1
    /\ runPc' = [runPc EXCEPT ![runs + 1] = "enter"]
    /\ runMode' = [runMode EXCEPT ![runs + 1] = "fg"]
    /\ UNCHANGED <<bgthread, runExc, onShut, askedStop, rclient, stopPc, seen, notRunnerVars>>

\* Lines 58-59: run() raises because a background thread is recorded.
run_AlreadyCalled ==
    /\ stopPc = "idle"
    /\ bgthread
    /\ seen' = Seen("run", FALSE)
    /\ UNCHANGED <<shutdown, bgthread, runPc, runMode, runExc, onShut, askedStop, rclient,
                   stopPc, runs, notRunnerVars>>

\* IOT/Client.py lines 174-175 (Client.start, called by __enter__): a client
\* that is not alive is started, which can fail.
ClientAfterStart == IF rclient = "alive" THEN {"alive"}
                    ELSE IF rclient = "stopped" THEN {"alive", "stopped"}
                    ELSE {"notalive"}

\* IOT/Client.py lines 185-186 (Client.stop, called by __exit__): the core
\* client is stopped if it is alive.
ClientAfterStop == IF rclient = "alive" THEN "stopped" ELSE rclient

\* Line 69: with self.__client, the client is started; when that raises,
\* __run ends without on_startup.
run_Enter(k) ==
    /\ runPc[k] = "enter"
    /\ \E c \in ClientAfterStart :
          /\ rclient' = c
          /\ IF c = "alive"
             THEN /\ runPc' = [runPc EXCEPT ![k] = "on_startup"]
                  /\ UNCHANGED runExc
             ELSE /\ runPc' = [runPc EXCEPT ![k] = "done"]
                  /\ runExc' = [runExc EXCEPT ![k] = "start"]
    /\ UNCHANGED <<shutdown, bgthread, runMode, onShut, askedStop, stopPc, seen, runs,
                   notRunnerVars>>

\* Line 71: on_startup returns, or raises, which leaves the with block.
run_Startup(k) ==
    /\ runPc[k] = "on_startup"
    /\ \/ /\ runPc' = [runPc EXCEPT ![k] = "main"]
          /\ UNCHANGED runExc
       \/ /\ runPc' = [runPc EXCEPT ![k] = "exit"]
          /\ runExc' = [runExc EXCEPT ![k] = "startup"]
    /\ UNCHANGED <<shutdown, bgthread, runMode, onShut, askedStop, rclient, stopPc, seen, runs,
                   notRunnerVars>>

\* Lines 73-80: main() returns or raises.
run_Main(k) ==
    /\ runPc[k] = "main"
    /\ runPc' = [runPc EXCEPT ![k] = "on_shutdown"]
    /\ \E e \in {"none", "main"} : runExc' = [runExc EXCEPT ![k] = e]
    /\ UNCHANGED <<shutdown, bgthread, runMode, onShut, askedStop, rclient, stopPc, seen, runs,
                   notRunnerVars>>

\* Line 82: on_shutdown(exception) is called with the exception of main().
run_OnShutdown(k) ==
    /\ runPc[k] = "on_shutdown"
    /\ runPc' = [runPc EXCEPT ![k] = "exit"]
    /\ onShut' = [onShut EXCEPT ![k] = Append(onShut[k], runExc[k])]
    /\ UNCHANGED <<shutdown, bgthread, runMode, runExc, askedStop, rclient, stopPc, seen, runs,
                   notRunnerVars>>

\* Line 69: the with block is left and the client's __exit__ calls stop().
run_Exit(k) ==
    /\ runPc[k] = "exit"
    /\ runPc' = [runPc EXCEPT ![k] = "done"]
    /\ rclient' = ClientAfterStop
    /\ UNCHANGED <<shutdown, bgthread, runMode, runExc, onShut, askedStop, stopPc, seen, runs,
                   notRunnerVars>>

\* A session of the client's link loses its connection, or has it back.
link_Flap ==
    /\ rclient \in {"alive", "notalive"}
    /\ rclient' = IF rclient = "alive" THEN "notalive" ELSE "alive"
    /\ UNCHANGED <<shutdown, bgthread, runPc, runMode, runExc, onShut, askedStop, stopPc, seen,
                   runs, notRunnerVars>>

\* Lines 87-88: stop(timeout) sets the shutdown Event and, with a background
\* thread recorded, goes on to join it.
stop_Call ==
    /\ stopPc = "idle"
    /\ shutdown' = ShutdownAfterStop
    /\ IF bgthread
       THEN stopPc' \in {"join_timeout", "join_none"}
       ELSE UNCHANGED stopPc
    /\ seen' = Seen("stop", bgthread)
    /\ askedStop' = [k \in Cycles |-> askedStop[k] \/ k \in Running]
    /\ UNCHANGED <<bgthread, runPc, runMode, runExc, onShut, rclient, runs, notRunnerVars>>

\* Lines 90-93: the join returns, when the thread has ended or at its
\* timeout, and the handle is forgotten.
stop_Join ==
    /\ stopPc \in {"join_timeout", "join_none"}
    /\ runPc[BgCycle] = "done" \/ stopPc = "join_timeout"
    /\ bgthread' = FALSE
    /\ stopPc' = "idle"
    /\ UNCHANGED <<shutdown, runPc, runMode, runExc, onShut, askedStop, rclient, seen, runs,
                   notRunnerVars>>

\* Lines 100-103: shutdown_requested.
shutdown_requested ==
    /\ stopPc = "idle"
    /\ seen' = Seen("shutdown_requested", shutdown)
    /\ UNCHANGED <<shutdown, bgthread, runPc, runMode, runExc, onShut, askedStop, rclient,
                   stopPc, runs, notRunnerVars>>

\* Lines 105-108: wait_for_shutdown(timeout) with a timeout returns the
\* Event's flag.
wait_for_shutdown ==
    /\ stopPc = "idle"
    /\ seen' = Seen("wait_for_shutdown", shutdown)
    /\ UNCHANGED <<shutdown, bgthread, runPc, runMode, runExc, onShut, askedStop, rclient,
                   stopPc, runs, notRunnerVars>>

RunnerNext ==
    \/ run_Background
    \/ run_Foreground
    \/ run_AlreadyCalled
    \/ \E k \in Cycles : run_Enter(k)
    \/ \E k \in Cycles : run_Startup(k)
    \/ \E k \in Cycles : run_Main(k)
    \/ \E k \in Cycles : run_OnShutdown(k)
    \/ \E k \in Cycles : run_Exit(k)
    \/ link_Flap
    \/ stop_Call
    \/ stop_Join
    \/ shutdown_requested
    \/ wait_for_shutdown

RunnerSpec == Init /\ [][RunnerNext]_vars

\* A runner that is only run in the background.
BgRunnerNext ==
    \/ run_Background
    \/ run_AlreadyCalled
    \/ \E k \in Cycles : run_Enter(k)
    \/ \E k \in Cycles : run_Startup(k)
    \/ \E k \in Cycles : run_Main(k)
    \/ \E k \in Cycles : run_OnShutdown(k)
    \/ \E k \in Cycles : run_Exit(k)
    \/ link_Flap
    \/ stop_Call
    \/ stop_Join
    \/ shutdown_requested
    \/ wait_for_shutdown

BgRunnerSpec == Init /\ [][BgRunnerNext]_vars

\* C30: a call of stop() while no background thread is recorded changes
\* nothing of the runner, so that shutdown_requested and wait_for_shutdown
\* give afterwards what they gave before.
C30_StopWithoutBackgroundHasNoEffect ==
    [][(~bgthread /\ stop_Call) =>
          UNCHANGED <<shutdown, bgthread, runPc, runMode, runExc, stopPc, runs>>]_vars

\* C31: at most one run cycle is being executed at any time, and while a
\* cycle that was running when stop() was called is still being executed
\* the shutdown Event is set; a run() with a background thread recorded
\* begins no cycle.
C31_OneCycleAtATime ==
    /\ [](Cardinality(Running) <= 1)
    /\ [](\A k \in Running : askedStop[k] => shutdown)
    /\ [][bgthread => (runs' = runs \/ ~bgthread')]_vars

\* C32: a cycle passes on_startup, main and on_shutdown in this order;
\* on_shutdown is called once, after main, with what main raised or None,
\* and is not called when on_startup raised or the client did not start;
\* when the cycle has ended the client is stopped.
C32_CycleOrderAndClientStopped ==
    /\ [][\A k \in Cycles : runPc'[k] # runPc[k] =>
            <<runPc[k], runPc'[k]>> \in
                {<<"none", "enter">>, <<"enter", "on_startup">>, <<"enter", "done">>,
                 <<"on_startup", "main">>, <<"on_startup", "exit">>,
                 <<"main", "on_shutdown">>, <<"on_shutdown", "exit">>,
                 <<"exit", "done">>}]_vars
    /\ [](\A k \in Cycles :
            /\ Len(onShut[k]) <= 1
            /\ (runPc[k] \in {"exit", "done"} /\ runExc[k] \in {"none", "main"})
                  => onShut[k] = <<runExc[k]>>
            /\ (runPc[k] \in {"exit", "done"} /\ runExc[k] \in {"start", "startup"})
                  => onShut[k] = <<>>
            /\ runPc[k] \in {"none", "enter", "on_startup", "main", "on_shutdown"}
                  => onShut[k] = <<>>)
    /\ [][\A k \in Cycles : (runPc[k] # "done" /\ runPc'[k] = "done") => rclient' = "stopped"]_vars

(***************************************************************************)
(* IoticAgent/IOT/Client.py, _except_if_failed: the exception a            *)
(* synchronous request method raises for a request event.  The event is    *)
(* its success flag and its payload: whether it is a mapping, whether it   *)
(* has a message and a code, and the code.                                 *)
(***************************************************************************)
\* Core/Const.py lines 32-38: the failure codes.
E_FAILED_CODE_NOTALLOWED == 1
E_FAILED_CODE_UNKNOWN == 2
E_FAILED_CODE_MALFORMED == 3
E_FAILED_CODE_DUPLICATE == 4
E_FAILED_CODE_INTERNALERROR == 5
E_FAILED_CODE_LOWSEQNUM == 6
E_FAILED_CODE_ACCESSDENIED == 7

\* The request events: the payload of one that is not a mapping has neither
\* message nor code.
Events ==
    {e \in [success : {"None", "True", "False"}, mapping : BOOLEAN, hasMessage : BOOLEAN,
            hasCode : BOOLEAN, code : 0..MaxCode] :
        /\ ~e.mapping => (~e.hasMessage /\ ~e.hasCode)
        /\ ~e.hasCode => e.code = 0}

\* Line 461 testing for the malformed code alone.
MalformedCodesWithoutNotAllowed == {E_FAILED_CODE_MALFORMED}

\* Line 461: code in (E_FAILED_CODE_MALFORMED, E_FAILED_CODE_NOTALLOWED).
MalformedCodes == {E_FAILED_CODE_MALFORMED, E_FAILED_CODE_NOTALLOWED}

\* Lines 456-464: the exception class for a code.
ExceptionForCode(code) ==
    IF code = E_FAILED_CODE_ACCESSDENIED THEN "IOTAccessDenied"
    ELSE IF code = E_FAILED_CODE_INTERNALERROR THEN "IOTInternalError"
    ELSE IF code \in MalformedCodes THEN "IOTMalformed"
    ELSE IF code = E_FAILED_CODE_UNKNOWN THEN "IOTUnknown"
    ELSE "IOTException"

\* Lines 448-465: what _except_if_failed(event) raises, and with which
\* message.
except_if_failed(e) ==
    IF e.success = "None" THEN [exc |-> "IOTSyncTimeout", msg |-> "Requested timed out"]
    ELSE IF e.success = "True" THEN [exc |-> "none", msg |-> "none"]
    ELSE LET msg == IF e.mapping /\ e.hasMessage THEN "payload" ELSE "unknown error"
         IN  IF e.mapping /\ e.hasCode
             THEN [exc |-> ExceptionForCode(e.code), msg |-> msg]
             ELSE [exc |-> "IOTException", msg |-> msg]

\* Lines 444-465: _except_if_failed is called on the event.
Client_except_if_failed ==
    /\ evtRaised.exc = "unset"
    /\ evtRaised' = except_if_failed(evt)
    /\ UNCHANGED <<evt, concVars, feedVars, amqpVars, reqVars, thingVars, runnerVars>>

\* Any request event, handed to _except_if_failed once.
ExceptInit ==
    /\ Constructed
    /\ ConcIdle
    /\ FeedIdle
    /\ evt \in Events
    /\ evtRaised = [exc |-> "unset", msg |-> "unset"]
ExceptSpec == ExceptInit /\ [][Client_except_if_failed]_vars

\* C33: _except_if_failed raises IOTSyncTimeout for success None and nothing
\* for success true; for success false it raises IOTAccessDenied,
\* IOTInternalError, IOTMalformed or IOTUnknown for the codes access-denied,
\* internal-error, malformed or not-allowed, and unknown of a mapping
\* payload, and the base IOTException in every other case.
C33_OutcomeMapsToOneResult ==
    evtRaised.exc # "unset" =>
        /\ evt.success = "None" <=> evtRaised.exc = "IOTSyncTimeout"
        /\ evt.success = "True" <=> evtRaised.exc = "none"
        /\ evt.success = "False" =>
              LET coded == evt.mapping /\ evt.hasCode
              IN  /\ evtRaised.exc = "IOTAccessDenied" <=> (coded /\ evt.code = 7)
                  /\ evtRaised.exc = "IOTInternalError" <=> (coded /\ evt.code = 5)
                  /\ evtRaised.exc = "IOTMalformed" <=> (coded /\ evt.code \in {1, 3})
                  /\ evtRaised.exc = "IOTUnknown" <=> (coded /\ evt.code = 2)
                  /\ evtRaised.exc = "IOTException" <=> (~coded \/ evt.code \in {0, 4, 6} \/ evt.code > 7)

\* C33 witness: a failed request whose mapping payload carries the
\* not-allowed code has raised IOTMalformed.
C33_Witness ==
    /\ evt.success = "False" /\ evt.mapping /\ evt.hasCode /\ evt.code = 1
    /\ evtRaised.exc = "IOTMalformed"

\* C34: between two creation events for the lid at most one get_thing
\* returns a Thing, and it is the Thing of the last creation event; a
\* get_thing that finds nothing cached raises KeyError; an entry of the
\* private table is never removed by creation or retrieval.
C34_NewThingRetrievedOnce ==
    /\ [](gets <= 1)
    /\ [](gets = 1 => (gotThing = private_things /\ new_things = 0))
    /\ [](new_things # 0 => private_things = new_things)
    /\ [][\A c \in Clients : (get_thing(c) /\ ~Cached) => thOut'[c] = "KeyError"]_vars
    /\ [][private_things # 0 => private_things' # 0]_vars

\* C34 witness: after a creation event one thread's get_thing returned the
\* Thing and the other thread's get_thing then raised KeyError, with the
\* Thing still in the private table.
C34_Witness ==
    /\ thOp = <<"get_thing", "get_thing">>
    /\ thOut = <<"KeyError", "Thing">>
    /\ gets = 1
    /\ gotThing = 2
    /\ private_things = 2
    /\ new_things = 0

\* C35: the receiver's error slot receives every failure of the receiver's
\* connect/run cycle, and a new value of the sender's error slot is always a
\* failure of the sender thread (or the cleared slot).
C35_ErrorSlotsWrittenByOwner ==
    /\ [][RecvFailStep =>
            (recv_exc'.by = "recv" /\ recv_exc'.cycle = cycle /\ recv_exc' \in RecvRecorded)]_vars
    /\ [][send_exc' # send_exc => (send_exc' = NoExc \/ send_exc'.by = "send")]_vars

(***************************************************************************)
(* AmqpLink.start() and AmqpLink.stop() called by several threads at once. *)
(* The thread handles are kept by identity, each caller has its own        *)
(* position, and a step is one statement of lines 92-141.  The session     *)
(* threads are reduced to what start() and stop() observe of them: the     *)
(* readiness Event they set and clear, and their end.                      *)
(***************************************************************************)

ThreadIds == 1..MaxThreads

At(at, k) == [at |-> at, k |-> k]

\* What the model leaves alone while callers race on start() and stop().
concFrame == <<send_exc, recv_exc, sendVars, recvVars, callVars, lockVars, ackVars, cbVars,
               reqVars, thingVars, runnerVars, exceptVars, feedVars>>

\* Thread.is_alive() of the created session threads of one kind.
AliveThreads(k) ==
    {i \in ThreadIds : threads[i].kind = k /\ threads[i].st \in {"connect", "ready"}}

\* Lines 101-102, 106-107: Thread(target=...) is stored in the handle and started.
NewThread(k) ==
    /\ made < MaxThreads
    /\ made' = made + 1
    /\ threads' = [threads EXCEPT ![made + 1] = [kind |-> k, st |-> "connect"]]
    /\ IF k = "send"
         THEN sendRef' = made + 1 /\ send_thread' = TRUE /\ UNCHANGED <<recvRef, recv_thread>>
         ELSE recvRef' = made + 1 /\ recv_thread' = TRUE /\ UNCHANGED <<sendRef, send_thread>>

\* Lines 92-122: AmqpLink.start() as run by caller c, one statement per step.
link_start(c) ==
    /\ \/ /\ apiPc[c] = At("idle", "none")                     \* line 95
          /\ apiOp' = [apiOp EXCEPT ![c] = "start"]
          /\ IF sendRef = 0 /\ recvRef = 0
               THEN /\ apiPc' = [apiPc EXCEPT ![c] = At("clear", "none")]
                    /\ apiOut' = [apiOut EXCEPT ![c] = "none"]
               ELSE /\ apiOut' = [apiOut EXCEPT ![c] = "LinkException"]   \* line 122
                    /\ UNCHANGED apiPc
          /\ UNCHANGED <<end, send_ready, recv_ready, send_thread, recv_thread,
                         sendRef, recvRef, threads, made, apiRet>>
       \/ /\ apiPc[c] = At("clear", "none")                    \* lines 97-99
          /\ end' = FALSE
          /\ send_ready' = FALSE
          /\ recv_ready' = FALSE
          /\ apiPc' = [apiPc EXCEPT ![c] = At("thread", "send")]
          /\ UNCHANGED <<send_thread, recv_thread, sendRef, recvRef, threads, made,
                         apiOp, apiRet, apiOut>>
       \/ \E k \in {"send", "recv"} :                          \* lines 101-102, 106-107
             /\ apiPc[c] = At("thread", k)
             /\ NewThread(k)
             /\ apiPc' = [apiPc EXCEPT ![c] = At("wait", k)]
             /\ UNCHANGED <<end, send_ready, recv_ready, apiOp, apiRet, apiOut>>
       \/ /\ apiPc[c] = At("wait", "send")                     \* lines 104-105, 110
          /\ apiPc' = [apiPc EXCEPT ![c] = IF send_ready THEN At("thread", "recv")
                                                         ELSE At("fail", "none")]
          /\ UNCHANGED <<end, send_ready, recv_ready, send_thread, recv_thread,
                         sendRef, recvRef, threads, made, apiOp, apiRet, apiOut>>
       \/ /\ apiPc[c] = At("wait", "recv")                     \* lines 108, 110
          /\ IF recv_ready
               THEN /\ apiPc' = [apiPc EXCEPT ![c] = At("idle", "none")]
                    /\ apiOut' = [apiOut EXCEPT ![c] = "ok"]
               ELSE /\ apiPc' = [apiPc EXCEPT ![c] = At("fail", "none")]
                    /\ UNCHANGED apiOut
          /\ UNCHANGED <<end, send_ready, recv_ready, send_thread, recv_thread,
                         sendRef, recvRef, threads, made, apiOp, apiRet>>
       \/ /\ apiPc[c] = At("fail", "none")                     \* line 112: self.stop()
          /\ apiPc' = [apiPc EXCEPT ![c] = At("set", "none")]
          /\ apiRet' = [apiRet EXCEPT ![c] = "raise"]
          /\ UNCHANGED <<end, send_ready, recv_ready, send_thread, recv_thread,
                         sendRef, recvRef, threads, made, apiOp, apiOut>>
    /\ UNCHANGED <<apiJoin, concFrame>>

\* The handle of one kind.
Ref(k) == IF k = "send" THEN sendRef ELSE recvRef

\* Lines 131-141: AmqpLink.stop() as run by caller c (or by its failing
\* start(), lines 112-119), one statement per step.  self.__recv_thread is read
\* once by the test of line 134 and again by the call of line 135.
link_stop(c) ==
    /\ \/ /\ apiPc[c] = At("idle", "none")
          /\ apiOp' = [apiOp EXCEPT ![c] = "stop"]
          /\ apiRet' = [apiRet EXCEPT ![c] = "return"]
          /\ apiOut' = [apiOut EXCEPT ![c] = "none"]
          /\ apiPc' = [apiPc EXCEPT ![c] = At("set", "none")]
          /\ UNCHANGED <<end, send_thread, recv_thread, sendRef, recvRef, apiJoin>>
       \/ /\ apiPc[c] = At("set", "none")                      \* line 133
          /\ end' = TRUE
          /\ apiPc' = [apiPc EXCEPT ![c] = At("if", "recv")]
          /\ UNCHANGED <<send_thread, recv_thread, sendRef, recvRef, apiOp, apiRet,
                         apiJoin, apiOut>>
       \/ \E k \in {"recv", "send"} :                          \* lines 134, 138
             /\ apiPc[c] = At("if", k)
             /\ apiPc' = [apiPc EXCEPT ![c] =
                            IF Ref(k) # 0 THEN At("read", k)
                            ELSE IF k = "recv" THEN At("if", "send") ELSE At("ret", "none")]
             /\ UNCHANGED <<end, send_thread, recv_thread, sendRef, recvRef, apiOp, apiRet,
                            apiJoin, apiOut>>
       \/ \E k \in {"recv", "send"} :                          \* lines 135, 139
             /\ apiPc[c] = At("read", k)
             /\ IF Ref(k) # 0
                  THEN /\ apiJoin' = [apiJoin EXCEPT ![c] = Ref(k)]
                       /\ apiPc' = [apiPc EXCEPT ![c] = At("join", k)]
                       /\ UNCHANGED apiOut
                  ELSE /\ apiOut' = [apiOut EXCEPT ![c] = "AttributeError"]
                       /\ apiPc' = [apiPc EXCEPT ![c] = At("idle", "none")]
                       /\ UNCHANGED apiJoin
             /\ UNCHANGED <<end, send_thread, recv_thread, sendRef, recvRef, apiOp, apiRet>>
       \/ \E k \in {"recv", "send"} :                          \* join() returns
             /\ apiPc[c] = At("join", k)
             /\ threads[apiJoin[c]].st = "done"
             /\ apiPc' = [apiPc EXCEPT ![c] = At("clear", k)]
             /\ UNCHANGED <<end, send_thread, recv_thread, sendRef, recvRef, apiOp, apiRet,
                            apiJoin, apiOut>>
       \/ /\ apiPc[c] = At("clear", "recv")                    \* line 136
          /\ recvRef' = 0
          /\ recv_thread' = FALSE
          /\ apiPc' = [apiPc EXCEPT ![c] = At("if", "send")]
          /\ UNCHANGED <<end, send_thread, sendRef, apiOp, apiRet, apiJoin, apiOut>>
       \/ /\ apiPc[c] = At("clear", "send")                    \* line 140
          /\ sendRef' = 0
          /\ send_thread' = FALSE
          /\ apiPc' = [apiPc EXCEPT ![c] = At("ret", "none")]
          /\ UNCHANGED <<end, recv_thread, recvRef, apiOp, apiRet, apiJoin, apiOut>>
       \/ /\ apiPc[c] = At("ret", "none")                      \* return; lines 113-119
          /\ apiOut' = [apiOut EXCEPT ![c] = IF apiRet[c] = "raise" THEN "LinkException"
                                                                   ELSE "ok"]
          /\ apiPc' = [apiPc EXCEPT ![c] = At("idle", "none")]
          /\ UNCHANGED <<end, send_thread, recv_thread, sendRef, recvRef, apiOp, apiRet,
                         apiJoin>>
    /\ UNCHANGED <<send_ready, recv_ready, threads, made, concFrame>>

\* Lines 244-269, 329-342 and the finally clauses: a session thread connects
\* and sets its readiness Event unless shutdown is requested; once it is
\* requested the thread clears the Event it had set and ends.
session_thread(i) ==
    /\ threads[i].st \in {"connect", "ready"}
    /\ \/ /\ ~end
          /\ threads[i].st = "connect"
          /\ threads' = [threads EXCEPT ![i].st = "ready"]
          /\ IF threads[i].kind = "send"
               THEN send_ready' = TRUE /\ UNCHANGED recv_ready
               ELSE recv_ready' = TRUE /\ UNCHANGED send_ready
       \/ /\ end
          /\ threads' = [threads EXCEPT ![i].st = "done"]
          /\ IF threads[i].st = "connect"
               THEN UNCHANGED <<send_ready, recv_ready>>
               ELSE IF threads[i].kind = "send"
                      THEN send_ready' = FALSE /\ UNCHANGED recv_ready
                      ELSE recv_ready' = FALSE /\ UNCHANGED send_ready
    /\ UNCHANGED <<end, send_thread, recv_thread, sendRef, recvRef, made,
                   apiPc, apiOp, apiRet, apiJoin, apiOut, concFrame>>

ConcNext ==
    \/ \E c \in Callers : link_start(c)
    \/ \E c \in Callers : link_stop(c)
    \/ \E i \in ThreadIds : session_thread(i)

ConcSpec == Init /\ [][ConcNext]_vars

\* C36: however the start() and stop() calls of concurrent callers
\* interleave, at most one sender thread and at most one receiver thread are
\* alive, and a call that fails raises LinkException.
C36_OneThreadPerSessionUnderRaces ==
    /\ Cardinality(AliveThreads("send")) <= 1
    /\ Cardinality(AliveThreads("recv")) <= 1
    /\ \A c \in Callers : apiOut[c] \in {"none", "ok", "LinkException"}

\* The positions of a session thread inside its "with Connection" block
\* (lines 331-357 and 251-296), after the channel is stored or both
\* consumers are registered.
SendConnected == sendPc \in {"poll", "finally"}
RecvConnected == recvPc \in {"drain", "finally"}

\* C37: the sender's readiness flag is set only while the sender thread is
\* inside its open connection and the stored send channel is that
\* connection's; the receiver's flag is set only while the receiver thread is
\* inside its open connection, with both consumers registered; the flag of a
\* session thread that is not running is clear.
C37_ReadinessInvariant ==
    /\ send_ready => (SendConnected /\ send_channel = "open")
    /\ recv_ready => RecvConnected
    /\ ~SendThreadAlive => ~send_ready
    /\ ~RecvThreadAlive => ~recv_ready

\* C37 witness: the link was started, stopped and started again; both flags
\* are set in the second cycle, after both were clear with no thread running.
C37_Witness ==
    /\ cycle = 2
    /\ send_ready /\ SendConnected
    /\ recv_ready /\ RecvConnected
    /\ send_channel = "open"
    /\ lifecycle = "started"

\* The receiver's connection is ending, or has ended, without a transport
\* error: its finally clause is reached with no exception pending, or the
\* thread has ended with nothing recorded by an except clause.
GracefulTeardown == recvPc = "finally" /\ recvPending = "none"
GracefulExit == recvPc = "done" /\ recv_exc = NoExc /\ send_exc = NoExc

\* C38: when the drain loop ends on a shutdown request and no broker call has
\* failed, a cumulative acknowledgment issued before the finally clause
\* (which cancels the consumers) covers every message dispatched on the
\* connection, and the unacked count is 0 then and when the thread exits.
C38_GracefulShutdownAcksAll ==
    (GracefulTeardown \/ GracefulExit) =>
        /\ end
        /\ unacked = 0
        /\ AckedUpTo = tag
        /\ \A i \in 1..Len(acks) : acks[i].multiple

\* C38 witness: the thread has exited after a shutdown request that found
\* dispatched messages unacknowledged; the last ack was issued for it.
C38_Witness ==
    /\ GracefulExit
    /\ tag >= 2
    /\ acks # <<>>
    /\ acks[Len(acks)].by = "end"
    /\ acks[Len(acks)].covers >= 1
    /\ unacked = 0

(***************************************************************************)
(* RemoteFeed.get_recent (RemotePoint.py lines 85-112): the generator      *)
(* polls a Queue that the receive path fills through the request's         *)
(* recent-data callback (Client.py lines 827-852), and leaves its loop     *)
(* when a poll found the queue empty and the request is finished or the    *)
(* sync timeout has passed.  Samples are numbered in arrival order.        *)
(***************************************************************************)

notFeedVars == <<amqpVars, reqVars, thingVars, runnerVars, exceptVars, concVars>>

\* Client.py lines 827-838, 848-851: __cb_recent_data calls the request's
\* callback, which puts each sample on the queue; the callback is registered
\* until the request completes.
cb_recent_data ==
    /\ ~recentSet
    /\ nput < MaxSamples
    /\ nput' = nput + 1
    /\ queue' = Append(queue, nput + 1)
    /\ UNCHANGED <<recentSet, pollPc, yielded, notFeedVars>>

\* RequestEvent.py lines 62-64: the receive path completes the request,
\* after the samples it delivered.
recent_complete ==
    /\ ~recentSet
    /\ recentSet' = TRUE
    /\ UNCHANGED <<queue, nput, pollPc, yielded, notFeedVars>>

\* RemotePoint.py line 108: queue.get(True, .1) returns the oldest sample,
\* which the generator yields.
get_recent_Yield ==
    /\ pollPc = "get"
    /\ queue # <<>>
    /\ yielded' = Append(yielded, Head(queue))
    /\ queue' = Tail(queue)
    /\ UNCHANGED <<nput, recentSet, pollPc, notFeedVars>>

\* RemotePoint.py lines 108-109: queue.get(True, .1) raises Empty after .1 s
\* with nothing on the queue.
get_recent_Empty ==
    /\ pollPc = "get"
    /\ queue = <<>>
    /\ pollPc' = "check"
    /\ UNCHANGED <<queue, nput, recentSet, yielded, notFeedVars>>

\* RemotePoint.py lines 110-111: if evt.is_set() or monotonic() >=
\* timeout_time: break; otherwise the loop polls again.
get_recent_Check ==
    /\ pollPc = "check"
    /\ \E expired \in BOOLEAN :
          pollPc' = IF recentSet THEN "finished"
                    ELSE IF expired THEN "timed_out" ELSE "get"
    /\ UNCHANGED <<queue, nput, recentSet, yielded, notFeedVars>>

FeedNext ==
    \/ cb_recent_data
    \/ recent_complete
    \/ get_recent_Yield
    \/ get_recent_Empty
    \/ get_recent_Check

FeedSpec == Init /\ [][FeedNext]_vars

\* C39: the generator yields the samples in arrival order, and when it ends
\* because the request is finished it has yielded every sample that was put
\* on its queue.
C39_GetRecentLosesNoSample ==
    /\ \A i \in 1..Len(yielded) : yielded[i] = i
    /\ pollPc = "finished" => (Len(yielded) = nput /\ queue = <<>>)

(***************************************************************************)
(* The receiver for every documented configuration: ackpc "1..0" (line 56) *)
(* includes 0, for which the threshold of line 73 is 0.  A message that    *)
(* the broker has available is delivered by some drain_events call if the  *)
(* receiver keeps calling it.                                              *)
(***************************************************************************)
AckRangeInit == RecvInitFor(0..AckDen)

AckRangeSpec == AckRangeInit /\ [][RecvNext]_vars

FairAckRangeSpec == AckRangeSpec /\ WF_vars(receiver_Scheduled) /\ SF_vars(recv_cb)

\* C40: while the receiver is connected and not shutting down, a message the
\* broker has available for it is eventually dispatched to the message
\* callback, unless shutdown is requested or the connection fails first.
C40_AvailableMessageDispatched ==
    \A n \in 0..(MaxMsgs - 1) :
        (Consuming /\ ~end /\ tag = n /\ Deliverable) ~> (tag > n \/ end \/ ~Consuming)

====
